---- MODULE Spec2Model ----
(***************************************************************************)
(* A model of the core of libsemigroups (fork flsmith/libsemigroups):      *)
(*   - the pointer cache            include/libsemigroups/cache.hpp        *)
(*   - the orbit engine             src/orb.h                              *)
(*   - Gabow's SCC on a graph       src/graph.h                            *)
(*   - Konieczny's D-class engine   include/libsemigroups/konieczny.hpp    *)
(*   - the tropical row bases       include/libsemigroups/matrix.hpp       *)
(*   - the cached hash of elements  src/elements.h                         *)
(* Each component has its own specification over its own variables; the    *)
(* variables of the other components stay at their initial values.         *)
(***************************************************************************)
EXTENDS Integers, Sequences, FiniteSets, TLC

VARIABLES
  \* ---- cache.hpp : Cache<T*> ----
  acquirable,   \* std::stack<T> _acquirable, top is the last entry
  acquired,     \* std::list<T>  _acquired
  cmap,         \* keys of std::unordered_map<T, list iterator> _map
  nextPtr,      \* the next address operator new returns
  pushed,       \* number of elements pushed so far (history)
  cacheCall,    \* the last call made on the cache and how it ended
  \* ---- cache.hpp : CacheGuard<T*> ----
  guards,       \* the _tmp of every live guard, the innermost scope last
  guardBase,    \* the acquirable count before the outermost live guard (history)
  guardPushed,  \* the elements pushed since the outermost live guard (history)
  \* ---- orb.h : Orb ----
  orbGens,      \* std::vector<ElementType*> _gens
  orbPts,       \* std::vector<PointType> _orb
  orbMap,       \* std::unordered_map<PointType, size_t> _map
  orbEnum,      \* bool _enumerated
  orbSeeds,     \* the seeds given to add_seed so far (history)
  orbCall,      \* the last call made on the orbit and what it returned
  \* ---- graph.h : Graph ----
  gDegree,      \* size_t degree (the number of columns)
  gRows,        \* the rows of the RecVec: gRows[i + 1][j + 1] is entry (i, j)
  gNextEdge,    \* std::vector<size_t> _next_edge_pos
  gCcIds,       \* std::vector<size_t> _cc_ids
  gHasScc,      \* bool _has_scc
  gEdits,       \* number of set / add_edge / add_nodes calls so far (history)
  gBefore,      \* the rows as they were when the SCC computation was called
  gStats,       \* what the SCC computation saw of its stacks (history)
  gCall,        \* the last call made on the graph and what it returned
  \* ---- konieczny.hpp : Konieczny ----
  kPc,              \* where the constructor is in compute_D_classes
  kInput,           \* the generators given to the constructor (history)
  kGens,            \* std::vector<TElementType> _gens
  kDim,             \* size_t _dim
  kUnitInGens,      \* bool _unit_in_gens
  kLambdaOrb,       \* lambda_orb_type _lambda_orb
  kRhoOrb,          \* rho_orb_type _rho_orb
  kDClasses,        \* std::vector<BaseDClass*> _D_classes, each after init()
  kDRels,           \* std::vector<std::vector<size_t>> _D_rels
  kRegularDClasses, \* _regular_D_classes, as indices into _D_classes
  kRegReps,         \* the local reg_reps of compute_D_classes
  kNonRegReps,      \* the local non_reg_reps
  kRanks,           \* the local std::set<size_t> ranks
  kMaxRank,         \* the local max_rank
  kNextReps,        \* the local next_reps
  kRepsAreReg,      \* the local reps_are_reg
  kCall,            \* the last call made on the engine and what it returned
  \* ---- orb.h : OrbWithTree / GradedOrb ----
  tKind,        \* "tree" for an OrbWithTree, "graded" for a GradedOrb
  tGens,        \* _gens
  tPts,         \* _orb
  tMap,         \* _map
  tEnum,        \* _enumerated
  tGen,         \* _gen: the generator that found each point, nullptr for a seed
  tParent,      \* _parent: the index each point was found from
  tGrade,       \* _grade
  tLow,         \* _low_grade_points
  tAdds,        \* the number of add_seed calls so far
  tCall,        \* the last call made on the orbit and what it returned
  \* ---- matrix.hpp : TropicalMaxPlusMat ----
  mMat,         \* the rows of the matrix the row bases are asked of
  mCall,        \* the last row-basis routine called and the rows it returned
  \* ---- elements.h : Transformation objects ----
  eVector,      \* _vector of every object
  eHashValue,   \* _hash_value of every object
  eCall         \* the last call made on an object and what it returned

cacheVars == <<acquirable, acquired, cmap, nextPtr, pushed, cacheCall>>

guardVars == <<guards, guardBase, guardPushed>>

orbVars == <<orbGens, orbPts, orbMap, orbEnum, orbSeeds, orbCall>>

treeVars == <<tKind, tGens, tPts, tMap, tEnum, tGen, tParent, tGrade, tLow,
              tAdds, tCall>>

graphVars == <<gDegree, gRows, gNextEdge, gCcIds, gHasScc, gEdits, gBefore,
               gStats, gCall>>

konVars == <<kPc, kInput, kGens, kDim, kUnitInGens, kLambdaOrb, kRhoOrb, kDClasses, kDRels,
            kRegularDClasses, kRegReps, kNonRegReps, kRanks, kMaxRank, kNextReps,
            kRepsAreReg, kCall>>

matVars == <<mMat, mCall>>

elemVars == <<eVector, eHashValue, eCall>>

vars == <<cacheVars, guardVars, orbVars, treeVars, graphVars, konVars, matVars,
          elemVars>>

\* the variables a component leaves alone: those of all the others
CacheOthers == <<orbVars, treeVars, graphVars, konVars, matVars, elemVars>>

OrbOthers == <<cacheVars, guardVars, treeVars, graphVars, konVars, matVars, elemVars>>

TreeOthers == <<cacheVars, guardVars, orbVars, graphVars, konVars, matVars, elemVars>>

GraphOthers == <<cacheVars, guardVars, orbVars, treeVars, konVars, matVars, elemVars>>

KonOthers == <<cacheVars, guardVars, orbVars, treeVars, graphVars, matVars, elemVars>>

MatOthers == <<cacheVars, guardVars, orbVars, treeVars, graphVars, konVars, elemVars>>

ElemOthers == <<cacheVars, guardVars, orbVars, treeVars, graphVars, konVars, matVars>>

(***************************************************************************)
(* Generic helpers                                                         *)
(***************************************************************************)
Range(s) == {s[i] : i \in 1..Len(s)}

RemoveAt(s, i) == SubSeq(s, 1, i - 1) \o SubSeq(s, i + 1, Len(s))

IndexOf(s, x) == CHOOSE i \in 1..Len(s) : s[i] = x

(***************************************************************************)
(* cache.hpp : Cache<T*>                                                   *)
(***************************************************************************)
\* total number of elements that may be pushed in one run of the model
MaxPushed == 3
\* largest count given to one push call
MaxPushCount == 2

\* the address of the prototype object handed to push (owned by the caller)
Proto == 0
\* the addresses a caller may hand to release: the prototype, every address
\* the cache can have allocated, and one address it never allocated
Pointers == 0..(MaxPushed + 1)

\* a push whose copies all are one and the same object
NewCopies_aliased(a, n) == [i \in 1..n |-> a]

RECURSIVE NewCopies(_, _)
\* the addresses of n objects allocated one after the other, starting at a
NewCopies(a, n) == IF n = 0 THEN <<>> ELSE <<a>> \o NewCopies(a + 1, n - 1)

CacheInit ==
  /\ acquirable = <<>>
  /\ acquired = <<>>
  /\ cmap = {}
  /\ nextPtr = 1
  /\ pushed = 0
  /\ cacheCall = [op |-> "none", arg |-> 0, threw |-> FALSE, ret |-> 0]

\* an acquire that hands out the prototype when the stack is empty instead
\* of throwing
acquire_nothrow ==
  IF acquirable = <<>>
    THEN /\ acquired' = Append(acquired, Proto)
         /\ cmap' = cmap \cup {Proto}
         /\ cacheCall' = [op |-> "acquire", arg |-> 0, threw |-> FALSE, ret |-> Proto]
         /\ UNCHANGED <<acquirable, nextPtr, pushed>>
    ELSE LET ptr == acquirable[Len(acquirable)]
         IN /\ acquirable' = SubSeq(acquirable, 1, Len(acquirable) - 1)
            /\ acquired' = Append(acquired, ptr)
            /\ cmap' = cmap \cup {ptr}
            /\ cacheCall' = [op |-> "acquire", arg |-> 0, threw |-> FALSE, ret |-> ptr]
            /\ UNCHANGED <<nextPtr, pushed>>

\* T acquire()
acquire ==
  IF acquirable = <<>>
    THEN /\ cacheCall' = [op |-> "acquire", arg |-> 0, threw |-> TRUE, ret |-> 0]
         /\ UNCHANGED <<acquirable, acquired, cmap, nextPtr, pushed>>
    ELSE LET ptr == acquirable[Len(acquirable)]
         IN /\ acquirable' = SubSeq(acquirable, 1, Len(acquirable) - 1)
            /\ acquired' = Append(acquired, ptr)
            /\ cmap' = cmap \cup {ptr}
            /\ cacheCall' = [op |-> "acquire", arg |-> 0, threw |-> FALSE, ret |-> ptr]
            /\ UNCHANGED <<nextPtr, pushed>>

\* a release that pushes the pointer back without looking it up in _map
release_nocheck(ptr) ==
  /\ acquired' = IF ptr \in Range(acquired)
                   THEN RemoveAt(acquired, IndexOf(acquired, ptr)) ELSE acquired
  /\ cmap' = cmap \ {ptr}
  /\ acquirable' = Append(acquirable, ptr)
  /\ cacheCall' = [op |-> "release", arg |-> ptr, threw |-> FALSE, ret |-> 0]
  /\ UNCHANGED <<nextPtr, pushed>>

\* void release(T ptr)
release(ptr) ==
  IF ptr \notin cmap
    THEN /\ cacheCall' = [op |-> "release", arg |-> ptr, threw |-> TRUE, ret |-> 0]
         /\ UNCHANGED <<acquirable, acquired, cmap, nextPtr, pushed>>
    ELSE /\ acquired' = RemoveAt(acquired, IndexOf(acquired, ptr))
         /\ cmap' = cmap \ {ptr}
         /\ acquirable' = Append(acquirable, ptr)
         /\ cacheCall' = [op |-> "release", arg |-> ptr, threw |-> FALSE, ret |-> 0]
         /\ UNCHANGED <<nextPtr, pushed>>

\* a push that forgets one of the copies
push_lossy(x, number) ==
  /\ pushed + number <= MaxPushed
  /\ acquirable' = acquirable \o NewCopies(nextPtr, IF number > 1 THEN number - 1 ELSE number)
  /\ nextPtr' = nextPtr + number
  /\ pushed' = pushed + number
  /\ cacheCall' = [op |-> "push", arg |-> number, threw |-> FALSE, ret |-> 0]
  /\ UNCHANGED <<acquired, cmap>>

\* void push(T x, size_t number = 1)
push(x, number) ==
  /\ pushed + number <= MaxPushed
  /\ acquirable' = acquirable \o NewCopies(nextPtr, number)
  /\ nextPtr' = nextPtr + number
  /\ pushed' = pushed + number
  /\ cacheCall' = [op |-> "push", arg |-> number, threw |-> FALSE, ret |-> 0]
  /\ UNCHANGED <<acquired, cmap>>

\* the cache while another component is looked at
CacheIdle == CacheInit

\* no guard is alive
GuardIdle == guards = <<>> /\ guardBase = 0 /\ guardPushed = 0

\* a call on the cache leaves the other components alone
CachePush ==
  /\ \E number \in 0..MaxPushCount : push(Proto, number)
  /\ UNCHANGED <<guardVars, CacheOthers>>

CacheAcquire == acquire /\ UNCHANGED <<guardVars, CacheOthers>>

CacheRelease ==
  /\ \E ptr \in Pointers : release(ptr)
  /\ UNCHANGED <<guardVars, CacheOthers>>

CacheNext == CachePush \/ CacheAcquire \/ CacheRelease

\* the accessors the tests use: the sizes of the two containers
Acquirable == Len(acquirable)
Acquired == Len(acquired)

(***************************************************************************)
(* Claims about the cache                                                  *)
(***************************************************************************)
\* C8: after any sequence of push, acquire and release calls (failed calls
\* included) acquirable + acquired = the number of elements pushed; a
\* successful acquire moves exactly one element from the acquirable pool to
\* the acquired list, a successful release moves exactly one element back.
C8_Conservation ==
  /\ [](Acquirable + Acquired = pushed)
  /\ [][ /\ (cacheCall'.op = "acquire" /\ ~cacheCall'.threw) =>
              /\ cacheCall'.ret \in Range(acquirable)
              /\ Range(acquirable') = Range(acquirable) \ {cacheCall'.ret}
              /\ Range(acquired') = Range(acquired) \cup {cacheCall'.ret}
              /\ Len(acquirable') = Len(acquirable) - 1
              /\ Len(acquired') = Len(acquired) + 1
         /\ (cacheCall'.op = "release" /\ ~cacheCall'.threw) =>
              /\ cacheCall'.arg \in Range(acquired)
              /\ Range(acquired') = Range(acquired) \ {cacheCall'.arg}
              /\ Range(acquirable') = Range(acquirable) \cup {cacheCall'.arg}
              /\ Len(acquirable') = Len(acquirable) + 1
              /\ Len(acquired') = Len(acquired) - 1
       ]_vars

\* a successful release happened while another element is still acquired
C8_Witness ==
  /\ cacheCall.op = "release" /\ ~cacheCall.threw
  /\ Acquired >= 1 /\ Acquirable >= 2

\* C9: acquire() on a cache whose acquirable pool is empty throws and leaves
\* the acquirable pool and the acquired list unchanged.
C9_AcquireEmptyThrows ==
  [][ (cacheCall'.op = "acquire" /\ acquirable = <<>>) =>
        (cacheCall'.threw /\ acquirable' = acquirable /\ acquired' = acquired
          /\ cmap' = cmap) ]_vars

\* acquire failed while every pushed element is acquired
C9_Witness ==
  /\ cacheCall.op = "acquire" /\ cacheCall.threw
  /\ Acquired >= 2 /\ Acquirable = 0

\* C10: release(p) succeeds exactly when p is currently acquired; for any
\* other pointer it throws and leaves both containers unchanged.
C10_ReleaseOwnedOnly ==
  [][ cacheCall'.op = "release" =>
        /\ (~cacheCall'.threw) <=> (cacheCall'.arg \in Range(acquired))
        /\ cacheCall'.threw =>
             (acquirable' = acquirable /\ acquired' = acquired /\ cmap' = cmap)
    ]_vars

\* release of a pointer that was acquired and released before failed
C10_Witness ==
  /\ cacheCall.op = "release" /\ cacheCall.threw
  /\ cacheCall.arg \in Range(acquirable)
  /\ Acquired >= 1

(***************************************************************************)
(* cache.hpp : CacheGuard<T*>. Guards live in nested scopes, so the guard  *)
(* constructed last is the one destroyed first; elements are pushed while  *)
(* no guard is alive.                                                      *)
(***************************************************************************)
\* explicit CacheGuard(Cache<T>& cache): _tmp(cache.acquire()); when acquire
\* throws no guard comes to life
guard_construct ==
  /\ acquire
  /\ IF cacheCall'.threw
       THEN UNCHANGED guardVars
       ELSE /\ guards' = Append(guards, cacheCall'.ret)
            /\ guardBase' = IF guards = <<>> THEN Len(acquirable) ELSE guardBase
            /\ guardPushed' = IF guards = <<>> THEN 0 ELSE guardPushed

\* a destructor that forgets to give its element back
guard_destroy_leak(tmp) ==
  /\ cacheCall' = [op |-> "release", arg |-> tmp, threw |-> FALSE, ret |-> 0]
  /\ UNCHANGED <<acquirable, acquired, cmap, nextPtr, pushed>>

\* ~CacheGuard(): _cache.release(_tmp)
guard_destroy(tmp) == release(tmp)

\* the innermost scope ends
guard_scope_exit ==
  /\ guards # <<>>
  /\ guard_destroy(guards[Len(guards)])
  /\ guards' = SubSeq(guards, 1, Len(guards) - 1)
  /\ UNCHANGED <<guardBase, guardPushed>>

\* T get() const: return _tmp, for the i-th live guard
guard_get(i) ==
  /\ cacheCall' = [op |-> "get", arg |-> i, threw |-> FALSE, ret |-> guards[i]]
  /\ UNCHANGED <<acquirable, acquired, cmap, nextPtr, pushed, guardVars>>

GuardPush ==
  /\ \E number \in 1..MaxPushCount :
       /\ push(Proto, number)
       /\ guardPushed' = IF guards = <<>> THEN 0 ELSE guardPushed + number
  /\ UNCHANGED <<guards, guardBase, CacheOthers>>

GuardEnter == guard_construct /\ UNCHANGED CacheOthers

GuardExit == guard_scope_exit /\ UNCHANGED CacheOthers

GuardGet ==
  /\ \E i \in 1..Len(guards) : guard_get(i)
  /\ UNCHANGED CacheOthers

GuardNext == GuardPush \/ GuardEnter \/ GuardExit \/ GuardGet

(***************************************************************************)
(* Claims about the cache guard and the elements handed out                *)
(***************************************************************************)
\* C11: for any nesting of guards over one cache, constructing a guard
\* acquires one element and leaving its scope releases that same element;
\* when the last guard has gone the acquired count is 0 and the acquirable
\* count is what it was before the first guard (plus whatever was pushed
\* inside the scopes, which is nothing when the scopes only hold guards);
\* constructing a guard on an empty pool throws and changes nothing.
C11_GuardScopes ==
  [][ /\ Len(guards') = Len(guards) + 1 =>
           /\ ~cacheCall'.threw
           /\ guards'[Len(guards')] = cacheCall'.ret
           /\ cacheCall'.ret \in Range(acquirable)
           /\ Range(acquired') = Range(acquired) \cup {cacheCall'.ret}
           /\ Acquired' = Acquired + 1 /\ Acquirable' = Acquirable - 1
      /\ Len(guards') = Len(guards) - 1 =>
           /\ cacheCall'.op = "release" /\ ~cacheCall'.threw
           /\ cacheCall'.arg = guards[Len(guards)]
           /\ Range(acquired') = Range(acquired) \ {guards[Len(guards)]}
           /\ guards[Len(guards)] \in Range(acquirable')
           /\ Acquired' = Acquired - 1 /\ Acquirable' = Acquirable + 1
      /\ (guards # <<>> /\ guards' = <<>>) =>
           (Acquired' = 0 /\ Acquirable' = guardBase + guardPushed)
      /\ cacheCall'.op = "get" =>
           (cacheCall'.ret = guards[cacheCall'.arg] /\ cacheCall'.ret \in Range(acquired))
      /\ (cacheCall'.op = "acquire" /\ acquirable = <<>>) =>
           /\ cacheCall'.threw
           /\ UNCHANGED <<acquirable, acquired, cmap, guards>>
    ]_vars

\* the inner of two nested guards has just left its scope
C11_Witness ==
  /\ Len(guards) = 1 /\ cacheCall.op = "release" /\ ~cacheCall.threw
  /\ Acquired = 1 /\ Acquirable >= 1
  /\ guardPushed = 0 /\ guardBase = Acquirable + 1

\* C12: at every moment the acquired elements are pairwise distinct objects
\* and none of them is the prototype handed to push.
C12_AcquiredDistinct ==
  /\ \A i, j \in 1..Len(acquired) : acquired[i] = acquired[j] => i = j
  /\ Proto \notin Range(acquired)

\* three elements are out at once, the last one handed out a second time
C12_Witness ==
  /\ Acquired = 3 /\ cacheCall.op = "acquire" /\ ~cacheCall.threw
  /\ cacheCall.ret < nextPtr - 1

(***************************************************************************)
(* orb.h : Orb<ElementType, PointType>                                     *)
(* Points are the numbers 0..3, a generator is the tuple of the images of  *)
(* 0..3 and acts on a point as in the tests: act(x, pt, tmp) = x[pt].      *)
(***************************************************************************)
\* std::numeric_limits<size_t>::max()
UNDEFINED == -1

\* largest number of generators of an orbit
OrbMaxGens == 2

OrbPoints == {0, 1, 2, 3}

\* the generators an orbit is built from
OrbGenPool ==
  { <<1, 0, 2, 3>>, <<1, 2, 0, 3>>, <<0, 0, 2, 3>>,
    <<0, 1, 3, 3>>, <<2, 2, 2, 2>>, <<0, 1, 3, 2>> }

\* the sequences over S of length 1..n
RECURSIVE SeqsUpTo(_, _)
SeqsUpTo(S, n) ==
  IF n = 0 THEN {}
  ELSE LET shorter == SeqsUpTo(S, n - 1)
       IN {<<x>> : x \in S} \cup shorter
            \cup {Append(q, x) : q \in shorter, x \in S}

\* the action used by the tests: the image of pt under x
act(x, pt) == x[pt + 1]

\* Orb(gens, act, copier): no point, not enumerated
OrbInit ==
  /\ orbGens \in SeqsUpTo(OrbGenPool, OrbMaxGens)
  /\ orbPts = <<>>
  /\ orbMap = <<>>
  /\ orbEnum = FALSE
  /\ orbSeeds = {}
  /\ orbCall = [op |-> "none", arg |-> 0, ret |-> 0]

\* the orbit while another component is looked at
OrbIdle ==
  /\ orbGens = <<>> /\ orbPts = <<>> /\ orbMap = <<>> /\ orbEnum = FALSE
  /\ orbSeeds = {} /\ orbCall = [op |-> "none", arg |-> 0, ret |-> 0]

\* the state of an orbit that the loops below work on
OrbState(pts, map) == [pts |-> pts, map |-> map]

\* _map.insert / _map.emplace: does nothing when the key is present
MapInsert(map, k, v) ==
  IF k \in DOMAIN map THEN map
  ELSE [x \in DOMAIN map \cup {k} |-> IF x = k THEN v ELSE map[x]]

\* bool is_new_point(): _tmp_point is not a key of _map
is_new_point(st, tmp) == tmp \notin DOMAIN st.map

\* a process_new_point that records the index after the push_back
process_new_point_late(st, tmp) ==
  OrbState(Append(st.pts, tmp), MapInsert(st.map, tmp, Len(st.pts) + 1))

\* void process_new_point(x, i): record the index, then push the point
process_new_point(st, tmp) ==
  OrbState(Append(st.pts, tmp), MapInsert(st.map, tmp, Len(st.pts)))

RECURSIVE EnumerateLoop(_, _, _, _)
\* the two nested loops of enumerate(): i runs over the (growing) points,
\* k over the generators
EnumerateLoop(gens, st, i, k) ==
  IF i >= Len(st.pts) THEN st
  ELSE IF k > Len(gens) THEN EnumerateLoop(gens, st, i + 1, 1)
  ELSE LET tmp == act(gens[k], st.pts[i + 1])
       IN EnumerateLoop(gens,
                        IF is_new_point(st, tmp)
                          THEN process_new_point(st, tmp) ELSE st,
                        i, k + 1)

RECURSIVE OnePassLoop(_, _, _, _, _)
\* an enumerate() that stops at the points present when it started
OnePassLoop(gens, st, i, k, n) ==
  IF i >= n THEN st
  ELSE IF k > Len(gens) THEN OnePassLoop(gens, st, i + 1, 1, n)
  ELSE LET tmp == act(gens[k], st.pts[i + 1])
       IN OnePassLoop(gens,
                      IF is_new_point(st, tmp)
                        THEN process_new_point(st, tmp) ELSE st,
                      i, k + 1, n)

Enumerated_onepass(gens, st, done) ==
  IF done THEN st ELSE OnePassLoop(gens, st, 0, 1, Len(st.pts))

\* the points and the map after enumerate()
Enumerated(gens, st, done) ==
  IF done THEN st ELSE EnumerateLoop(gens, st, 0, 1)

\* an add_seed that marks the orbit unfinished whether it adds or not
add_seed_unfinished(seed) ==
  /\ IF seed \notin DOMAIN orbMap
       THEN /\ orbMap' = MapInsert(orbMap, seed, Len(orbPts))
            /\ orbPts' = Append(orbPts, seed)
            /\ orbCall' = [op |-> "add_seed", arg |-> seed, ret |-> Len(orbPts)]
       ELSE /\ orbCall' = [op |-> "add_seed", arg |-> seed, ret |-> UNDEFINED]
            /\ UNCHANGED <<orbPts, orbMap>>
  /\ orbEnum' = FALSE
  /\ orbSeeds' = orbSeeds \cup {seed}
  /\ UNCHANGED orbGens

\* size_t add_seed(PointType seed)
add_seed(seed) ==
  /\ IF seed \notin DOMAIN orbMap
       THEN /\ orbMap' = MapInsert(orbMap, seed, Len(orbPts))
            /\ orbPts' = Append(orbPts, seed)
            /\ orbEnum' = FALSE
            /\ orbCall' = [op |-> "add_seed", arg |-> seed, ret |-> Len(orbPts)]
       ELSE /\ orbCall' = [op |-> "add_seed", arg |-> seed, ret |-> UNDEFINED]
            /\ UNCHANGED <<orbPts, orbMap, orbEnum>>
  /\ orbSeeds' = orbSeeds \cup {seed}
  /\ UNCHANGED orbGens

\* void enumerate()
enumerate ==
  LET st == Enumerated(orbGens, OrbState(orbPts, orbMap), orbEnum)
  IN /\ orbPts' = st.pts
     /\ orbMap' = st.map
     /\ orbEnum' = TRUE
     /\ orbCall' = [op |-> "enumerate", arg |-> 0, ret |-> 0]
     /\ UNCHANGED <<orbGens, orbSeeds>>

\* size_t size(): enumerate(), then _orb.size()
size ==
  LET st == Enumerated(orbGens, OrbState(orbPts, orbMap), orbEnum)
  IN /\ orbPts' = st.pts
     /\ orbMap' = st.map
     /\ orbEnum' = TRUE
     /\ orbCall' = [op |-> "size", arg |-> 0, ret |-> Len(st.pts)]
     /\ UNCHANGED <<orbGens, orbSeeds>>

\* size_t position(PointType pt), as a function of _map
Position(map, pt) == IF pt \in DOMAIN map THEN map[pt] ELSE UNDEFINED

\* size_t position(PointType pt)
position(pt) ==
  /\ orbCall' = [op |-> "position", arg |-> pt, ret |-> Position(orbMap, pt)]
  /\ UNCHANGED <<orbGens, orbPts, orbMap, orbEnum, orbSeeds>>

\* size_t current_size()
current_size == Len(orbPts)

\* a call on the orbit leaves the other components alone
OrbAddSeed ==
  /\ \E seed \in OrbPoints : add_seed(seed)
  /\ UNCHANGED OrbOthers

OrbEnumerate == enumerate /\ UNCHANGED OrbOthers

OrbSize == size /\ UNCHANGED OrbOthers

OrbPosition ==
  /\ \E pt \in OrbPoints : position(pt)
  /\ UNCHANGED OrbOthers

OrbNext == OrbAddSeed \/ OrbEnumerate \/ OrbSize \/ OrbPosition

(***************************************************************************)
(* Claims about the orbit                                                  *)
(***************************************************************************)
\* the images of the points of S under the generators
OrbStep(S) == {act(orbGens[k], p) : k \in 1..Len(orbGens), p \in S}

RECURSIVE OrbClosure(_)
\* the points reachable from S by applying generators
OrbClosure(S) == IF OrbStep(S) \subseteq S THEN S ELSE OrbClosure(S \cup OrbStep(S))

\* C5: once enumerate() (or size()) has returned, the points of the orbit
\* are exactly the points reachable from the seeds added so far: the set is
\* closed under every generator, holds no unreachable point, and size()
\* returns their number.
C5_OrbitIsClosure ==
  (orbEnum \/ orbCall.op \in {"enumerate", "size"}) =>
     /\ Range(orbPts) = OrbClosure(orbSeeds)
     /\ OrbStep(Range(orbPts)) \subseteq Range(orbPts)
     /\ orbCall.op = "size" => orbCall.ret = Cardinality(OrbClosure(orbSeeds))

\* size() returned after a second seed enlarged an orbit enumerated before
C5_Witness ==
  /\ orbCall.op = "size"
  /\ Cardinality(orbSeeds) >= 2
  /\ orbCall.ret > Cardinality(OrbClosure({orbPts[1]}))
  /\ orbCall.ret < Cardinality(OrbPoints)

\* C6: position is the inverse of the points vector: position(points[i]) = i
\* for every i < current_size(), and position(p) is UNDEFINED for every
\* point p that is not in the orbit.
C6_PositionInverse ==
  /\ \A i \in 0..(current_size - 1) : Position(orbMap, orbPts[i + 1]) = i
  /\ \A p \in OrbPoints \ Range(orbPts) : Position(orbMap, p) = UNDEFINED
  /\ orbCall.op = "position" =>
       IF orbCall.arg \in Range(orbPts)
         THEN orbCall.ret >= 0 /\ orbPts[orbCall.ret + 1] = orbCall.arg
         ELSE orbCall.ret = UNDEFINED

\* position was asked for a point outside an enumerated orbit of 3 points
C6_Witness ==
  /\ orbCall.op = "position" /\ orbCall.ret = UNDEFINED
  /\ orbEnum /\ current_size >= 3 /\ Cardinality(orbSeeds) >= 2

\* C13 (as stated): add_seed(p) for a point p already in the orbit changes
\* neither the points, the position map nor the finished flag, and returns
\* the existing index of p, that is position(p).
C13_SeedPresentReturnsIndex ==
  [][ (orbCall'.op = "add_seed" /\ orbCall'.arg \in DOMAIN orbMap) =>
        /\ UNCHANGED <<orbPts, orbMap, orbEnum>>
        /\ orbCall'.ret = Position(orbMap, orbCall'.arg)
    ]_vars

\* C13 (amended): add_seed(p) for a point p already in the orbit changes
\* neither the points, the position map nor the finished flag, and returns
\* UNDEFINED; position(p) still is the index p had.
C13_SeedPresentNoOp ==
  [][ (orbCall'.op = "add_seed" /\ orbCall'.arg \in DOMAIN orbMap) =>
        /\ UNCHANGED <<orbPts, orbMap, orbEnum>>
        /\ orbCall'.ret = UNDEFINED
        /\ Position(orbMap', orbCall'.arg) # UNDEFINED
        /\ orbPts'[Position(orbMap', orbCall'.arg) + 1] = orbCall'.arg
    ]_vars

\* a point found by the enumeration has just been given as a seed again:
\* the orbit is still finished
C13_Witness ==
  /\ orbCall.op = "add_seed" /\ orbCall.ret = UNDEFINED
  /\ orbEnum /\ Len(orbPts) >= 2
  /\ Position(orbMap, orbCall.arg) >= 1

(***************************************************************************)
(* graph.h : Graph (a RecVec<size_t> of nr_rows x degree entries, entry    *)
(* (i, j) is the target of the j-th edge of vertex i, or UNDEFINED)        *)
(***************************************************************************)
\* largest number of vertices of a graph
GraphMaxNodes == 3
\* largest number of set / add_edge / add_nodes calls on one graph
GraphMaxEdits == 4

\* the numbers of columns a graph is constructed with
GraphDegrees == {1, 2}

\* a vector of n copies of x
Fill(n, x) == [i \in 1..n |-> x]

\* base_recvec::get(i, j)
Get(rows, i, j) == rows[i + 1][j + 1]

\* the entries of the table that are edges
EdgeEntries(rows) ==
  {<<i, j>> \in (0..(Len(rows) - 1)) \X (0..(gDegree - 1)) :
      rows[i + 1][j + 1] # UNDEFINED}

\* Graph(degree, nr_vertices): every entry UNDEFINED, every edge position 0
GraphInit ==
  /\ gDegree \in GraphDegrees
  /\ \E n \in 0..GraphMaxNodes :
       /\ gRows = Fill(n, Fill(gDegree, UNDEFINED))
       /\ gNextEdge = Fill(n, 0)
  /\ gCcIds = <<>>
  /\ gHasScc = FALSE
  /\ gEdits = 0
  /\ gBefore = <<>>
  /\ gStats = [maxEnd1 |-> 0, maxLevel |-> 0, emptyRead |-> FALSE,
               cleanFinish |-> TRUE, ran |-> FALSE]
  /\ gCall = [op |-> "none", ret |-> 0]

\* the graph while another component is looked at
GraphIdle ==
  /\ gDegree = 0 /\ gRows = <<>> /\ gNextEdge = <<>> /\ gCcIds = <<>>
  /\ gHasScc = FALSE /\ gEdits = 0 /\ gBefore = <<>>
  /\ gStats = [maxEnd1 |-> 0, maxLevel |-> 0, emptyRead |-> FALSE,
               cleanFinish |-> TRUE, ran |-> FALSE]
  /\ gCall = [op |-> "none", ret |-> 0]

\* void set(size_t i, size_t j, size_t k)
set(i, j, k) ==
  /\ gEdits < GraphMaxEdits
  /\ i < Len(gRows) /\ j < gDegree
  /\ gRows' = [gRows EXCEPT ![i + 1][j + 1] = k]
  /\ gHasScc' = FALSE
  /\ gEdits' = gEdits + 1
  /\ gCall' = [op |-> "none", ret |-> 0]
  /\ UNCHANGED <<gDegree, gNextEdge, gCcIds, gBefore, gStats>>

\* void add_nodes(size_t nr)
add_nodes(nr) ==
  /\ gEdits < GraphMaxEdits
  /\ Len(gRows) + nr <= GraphMaxNodes
  /\ gRows' = gRows \o Fill(nr, Fill(gDegree, UNDEFINED))
  /\ gNextEdge' = gNextEdge \o Fill(nr, 0)
  /\ gHasScc' = FALSE
  /\ gEdits' = gEdits + 1
  /\ gCall' = [op |-> "none", ret |-> 0]
  /\ UNCHANGED <<gDegree, gCcIds, gBefore, gStats>>

\* void add_edge(size_t i, size_t j); the two assertions are its precondition
add_edge(i, j) ==
  /\ gEdits < GraphMaxEdits
  /\ i < Len(gRows)
  /\ gNextEdge[i + 1] < gDegree
  /\ gRows' = [gRows EXCEPT ![i + 1][gNextEdge[i + 1] + 1] = j]
  /\ gNextEdge' = [gNextEdge EXCEPT ![i + 1] = @ + 1]
  /\ gHasScc' = FALSE
  /\ gEdits' = gEdits + 1
  /\ gCall' = [op |-> "none", ret |-> 0]
  /\ UNCHANGED <<gDegree, gCcIds, gBefore, gStats>>

\* the counting loop of nr_edges(): what the local variable count ends as
CountEdges(rows) == Cardinality(EdgeEntries(rows))

\* size_t nr_edges(): counts into count, returns edges
nr_edges ==
  /\ LET edges == 0
         count == CountEdges(gRows)
     IN gCall' = [op |-> "nr_edges", ret |-> edges]
  /\ UNCHANGED <<gDegree, gRows, gNextEdge, gCcIds, gHasScc, gEdits, gBefore,
                 gStats>>

\* operator< on size_t, where UNDEFINED is the largest value
Less(a, b) == IF a = UNDEFINED THEN FALSE ELSE IF b = UNDEFINED THEN TRUE ELSE a < b

RECURSIVE InsertSorted(_, _)
InsertSorted(row, x) ==
  IF row = <<>> THEN <<x>>
  ELSE IF Less(x, Head(row)) THEN <<x>> \o row
  ELSE <<Head(row)>> \o InsertSorted(Tail(row), x)

RECURSIVE SortRow(_)
\* std::sort(begin_row(i), end_row(i))
SortRow(row) == IF row = <<>> THEN <<>> ELSE InsertSorted(SortRow(Tail(row)), Head(row))

\* the number of entries of a row that are not UNDEFINED
CountDefined(row) == Cardinality({j \in 1..Len(row) : row[j] # UNDEFINED})

\* tidy(): the rows afterwards
TidyRows(rows) == [i \in 1..Len(rows) |-> SortRow(rows[i])]
\* tidy(): _next_edge_pos afterwards
TidyNextEdge(rows) == [i \in 1..Len(rows) |-> CountDefined(rows[i])]

\* void tidy()
tidy ==
  /\ gRows' = TidyRows(gRows)
  /\ gNextEdge' = TidyNextEdge(gRows)
  /\ gCall' = [op |-> "tidy", ret |-> 0]
  /\ UNCHANGED <<gDegree, gCcIds, gHasScc, gEdits, gBefore, gStats>>

RECURSIVE PopWhileGreaterEq(_, _)
\* pops the entries >= idw instead of those > idw
PopWhileGreaterEq(stack2, idw) ==
  IF stack2 # <<>> /\ stack2[Len(stack2)] >= idw
    THEN PopWhileGreaterEq(SubSeq(stack2, 1, Len(stack2) - 1), idw)
    ELSE stack2

RECURSIVE PopWhileGreater(_, _)
\* while (stack2.top() > idw) stack2.pop(); reading top() of an empty stack
\* is left to the caller to detect: the loop stops there
PopWhileGreater(stack2, idw) ==
  IF stack2 # <<>> /\ stack2[Len(stack2)] > idw
    THEN PopWhileGreater(SubSeq(stack2, 1, Len(stack2) - 1), idw)
    ELSE stack2

\* pops the one vertex on top of stack1, whatever frame[0] is
PopComponent_top_only(cc, stack1, end1, vc) ==
  [cc |-> [cc EXCEPT ![stack1[end1] + 1] = vc[2]], end1 |-> end1 - 1]

RECURSIVE PopComponent(_, _, _, _)
\* do { w = stack1[end1--]; _cc_ids[w] = count; } while (w != frame[0]);
PopComponent(cc, stack1, end1, vc) ==
  LET w == stack1[end1]
      cc2 == [cc EXCEPT ![w + 1] = vc[2]]
  IN IF w = vc[1] THEN [cc |-> cc2, end1 |-> end1 - 1]
     ELSE PopComponent(cc2, stack1, end1 - 1, vc)

\* the local state of gabow_scc_non_recursive_from_digraphs for n vertices:
\* stack1 has n + 1 entries (entry 0 is never used), frames 3 n + 1 entries,
\* fp is the offset of the pointer frame into frames
GabowStart(n, stats) ==
  [cc |-> Fill(n, 0), end1 |-> 0, stack1 |-> [i \in 0..n |-> UNDEFINED],
   stack2 |-> <<>>, frames |-> [i \in 0..(3 * n) |-> UNDEFINED], fp |-> 0,
   level |-> 0, count |-> n, stats |-> stats]

\* what the computation has seen of its stacks so far
Observe(st) ==
  [st EXCEPT !.stats.maxEnd1 = IF st.end1 > @ THEN st.end1 ELSE @,
             !.stats.maxLevel = IF st.level > @ THEN st.level ELSE @]

\* the push of a vertex w: a new frame when deeper, stack1, stack2, _cc_ids
PushVertex(st, w, deeper) ==
  LET fp == IF deeper THEN st.fp + 2 ELSE st.fp
      e == st.end1 + 1
  IN Observe([st EXCEPT !.level = IF deeper THEN @ + 1 ELSE 1,
                        !.fp = fp,
                        !.frames = [@ EXCEPT ![fp] = w, ![fp + 1] = 0],
                        !.end1 = e,
                        !.stack1 = [@ EXCEPT ![e] = w],
                        !.stack2 = Append(@, e),
                        !.cc = [@ EXCEPT ![w + 1] = e]])

RECURSIVE GabowWhile(_, _, _)
\* the while (1) loop: the traversal from one start vertex
GabowWhile(rows, nextEdge, st) ==
  LET f0 == st.frames[st.fp]
      f1 == st.frames[st.fp + 1]
  IN IF f1 >= nextEdge[f0 + 1]
       THEN \* every edge of frame[0] is done
            LET isRoot == st.stack2 # <<>> /\ st.stack2[Len(st.stack2)] = st.cc[f0 + 1]
                popped == PopComponent(st.cc, st.stack1, st.end1, <<f0, st.count>>)
                st1 == IF isRoot
                         THEN [st EXCEPT !.stack2 = SubSeq(@, 1, Len(@) - 1),
                                         !.cc = popped.cc,
                                         !.end1 = popped.end1,
                                         !.count = @ + 1]
                         ELSE st
                st2 == [st1 EXCEPT !.level = @ - 1,
                                   !.stats.emptyRead = @ \/ st.stack2 = <<>>]
            IN IF st2.level = 0
                 THEN [st2 EXCEPT !.stats.cleanFinish =
                                     @ /\ st2.end1 = 0 /\ st2.stack2 = <<>>]
                 ELSE GabowWhile(rows, nextEdge, [st2 EXCEPT !.fp = @ - 2])
       ELSE LET w == Get(rows, f0, f1)
                idw == st.cc[w + 1]
                st1 == [st EXCEPT !.frames = [@ EXCEPT ![st.fp + 1] = f1 + 1]]
            IN IF idw = 0
                 THEN GabowWhile(rows, nextEdge, PushVertex(st1, w, TRUE))
                 ELSE LET s2 == PopWhileGreater(st1.stack2, idw)
                      IN GabowWhile(rows, nextEdge,
                           [st1 EXCEPT !.stack2 = s2,
                                       !.stats.emptyRead = @ \/ s2 = <<>>])

RECURSIVE GabowFor(_, _, _, _)
\* the loop over the start vertices v
GabowFor(rows, nextEdge, st, v) ==
  IF v >= Len(rows) THEN st
  ELSE IF st.cc[v + 1] = 0
    THEN GabowFor(rows, nextEdge,
                  GabowWhile(rows, nextEdge, PushVertex(st, v, FALSE)), v + 1)
    ELSE GabowFor(rows, nextEdge, st, v + 1)

\* every edge of the table leads to a vertex of the graph
TargetsInRange(rows) ==
  \A e \in EdgeEntries(rows) : Get(rows, e[1], e[2]) \in 0..(Len(rows) - 1)

\* void gabow_scc_non_recursive_from_digraphs(); a target that is no vertex
\* indexes _cc_ids out of range, so the call requires TargetsInRange
gabow_scc ==
  /\ TargetsInRange(gRows)
  /\ ~gStats.ran
  /\ LET rows == TidyRows(gRows)
         nextEdge == TidyNextEdge(gRows)
         n == Len(gRows)
         st == GabowFor(rows, nextEdge, GabowStart(n, gStats), 0)
     IN /\ gRows' = rows
        /\ gNextEdge' = nextEdge
        /\ gCcIds' = [i \in 1..n |-> st.cc[i] - n]
        /\ gStats' = [st.stats EXCEPT !.ran = TRUE]
  /\ gBefore' = gRows
  /\ gCall' = [op |-> "scc", ret |-> 0]
  /\ UNCHANGED <<gDegree, gHasScc, gEdits>>

\* std::vector<size_t> scc_ids()
scc_ids == gCcIds

GraphTargets == 0..(GraphMaxNodes - 1)

\* a call on the graph leaves the other components alone; the graph is
\* followed up to its SCC computation and the reads after it
GraphSet ==
  /\ \E i \in GraphTargets, j \in 0..1, k \in GraphTargets \cup {UNDEFINED} :
        ~gStats.ran /\ set(i, j, k)
  /\ UNCHANGED GraphOthers

GraphAddNodes ==
  /\ \E nr \in 1..2 : ~gStats.ran /\ add_nodes(nr)
  /\ UNCHANGED GraphOthers

GraphAddEdge ==
  /\ \E i \in GraphTargets, j \in GraphTargets : ~gStats.ran /\ add_edge(i, j)
  /\ UNCHANGED GraphOthers

GraphNrEdges == nr_edges /\ UNCHANGED GraphOthers

GraphTidy == ~gStats.ran /\ tidy /\ UNCHANGED GraphOthers

GraphScc == gabow_scc /\ UNCHANGED GraphOthers

GraphNext ==
  GraphSet \/ GraphAddNodes \/ GraphAddEdge \/ GraphNrEdges \/ GraphTidy \/ GraphScc

(***************************************************************************)
(* Claims about the graph                                                  *)
(***************************************************************************)
\* the edges u -> v of a table
EdgesOf(rows) == {<<e[1], Get(rows, e[1], e[2])>> : e \in EdgeEntries(rows)}

RECURSIVE ReachSet(_, _)
\* the vertices reachable from the set S along edges E (S included)
ReachSet(E, S) ==
  LET T == S \cup {e[2] : e \in {d \in E : d[1] \in S}}
  IN IF T = S THEN S ELSE ReachSet(E, T)

\* u and v lie on a common cycle, or are equal
MutuallyReachable(E, u, v) == v \in ReachSet(E, {u}) /\ u \in ReachSet(E, {v})

\* C7: after the SCC computation every vertex has one SCC id, the ids used
\* are exactly 0..k-1 for some k, and two vertices have the same id if and
\* only if each is reachable from the other along edges of the graph.
C7_SccCorrect ==
  gStats.ran =>
    LET n == Len(gRows)
        E == EdgesOf(gBefore)
        ids == {scc_ids[i] : i \in 1..n}
    IN /\ Len(scc_ids) = n
       /\ ids = 0..(Cardinality(ids) - 1)
       /\ \A u, v \in 0..(n - 1) :
            (scc_ids[u + 1] = scc_ids[v + 1]) <=> MutuallyReachable(E, u, v)

\* the SCC computation ran on 3 vertices where two of them form a component
\* entered from the third
C7_Witness ==
  /\ gStats.ran /\ Len(gRows) = 3
  /\ Cardinality({scc_ids[i] : i \in 1..3}) = 2
  /\ \E u, v \in 0..2 : u # v /\ scc_ids[u + 1] # scc_ids[v + 1]
                           /\ <<u, v>> \in EdgesOf(gBefore)

\* C16 (as stated): for every edge u -> v of the graph scc_id(u) <= scc_id(v):
\* edges only reach components of equal or later id.
C16_EdgesReachLaterIds ==
  gStats.ran =>
    \A e \in EdgesOf(gBefore) : scc_ids[e[1] + 1] <= scc_ids[e[2] + 1]

\* C16 (amended): the ids are given in the order in which the components are
\* completed, and a component is completed only after all those its edges
\* lead to: for every edge u -> v of the graph scc_id(u) >= scc_id(v).
C16_EdgesReachEarlierIds ==
  gStats.ran =>
    \A e \in EdgesOf(gBefore) : scc_ids[e[1] + 1] >= scc_ids[e[2] + 1]

\* the SCC computation ran on a chain u -> v -> w of three components, which
\* were numbered from its end
C16_Witness ==
  /\ gStats.ran /\ Len(gRows) = 3
  /\ \E u, v, w \in 0..2 :
       /\ <<u, v>> \in EdgesOf(gBefore) /\ <<v, w>> \in EdgesOf(gBefore)
       /\ scc_ids[u + 1] = 2 /\ scc_ids[v + 1] = 1 /\ scc_ids[w + 1] = 0

\* C21: nr_edges() returns the number of entries of the edge table that are
\* not UNDEFINED, after any sequence of set, add_nodes and add_edge calls.
C21_NrEdgesCounts ==
  gCall.op = "nr_edges" => gCall.ret = CountEdges(gRows)

\* nr_edges() was called on a graph with two edges and returned 0
C21_Witness ==
  /\ gCall.op = "nr_edges" /\ CountEdges(gRows) = 2 /\ gCall.ret = 0

\* C22: the SCC computation does not change the edge table: every entry
\* (i, g) after it equals the entry (i, g) before it.
C22_SccKeepsTable ==
  [][gCall'.op = "scc" => gRows' = gRows]_vars

\* the SCC computation ran on a table whose row 0 held an edge in column 1
\* only, and the edge now is in column 0
C22_Witness ==
  /\ gStats.ran /\ gCall.op = "scc" /\ gDegree = 2 /\ Len(gRows) >= 2
  /\ gBefore[1][1] = UNDEFINED /\ gBefore[1][2] # UNDEFINED
  /\ gRows[1][1] = gBefore[1][2] /\ gRows[1][2] = UNDEFINED

\* C29: during the SCC computation on n vertices whose edge targets are all
\* below n, stack1 never holds more than n vertices, the depth of the frames
\* never exceeds n, stack2 is never read or popped while it is empty, and
\* both stacks are empty each time the traversal from a start vertex ends.
C29_StacksStayInBounds ==
  gStats.ran =>
    /\ gStats.maxEnd1 <= Len(gRows)
    /\ gStats.maxLevel <= Len(gRows)
    /\ ~gStats.emptyRead
    /\ gStats.cleanFinish

\* the SCC computation ran on 3 vertices that form one component, found at
\* depth 3 with all three on stack1
C29_Witness ==
  /\ gStats.ran /\ Len(gRows) = 3
  /\ gStats.maxEnd1 = 3 /\ gStats.maxLevel = 3
  /\ Cardinality({scc_ids[i] : i \in 1..3}) = 1

(***************************************************************************)
(* elements.h / element-adapters.hpp : Transformation and its adapters     *)
(* A transformation is the tuple of the images of 0..n-1.                  *)
(***************************************************************************)
\* Transformation::redefine(x, y): this[i] = y[x[i]], the product x * y
Product(x, y) == [i \in 1..Len(x) |-> y[x[i] + 1]]

\* operator* of two elements; an operand that was never produced (the loop
\* computing it did not exit) gives no product either
Mul(x, y) == IF x = <<>> \/ y = <<>> THEN <<>> ELSE Product(x, y)

\* Transformation::identity(): the identity of degree n
One(n) == [i \in 1..n |-> i - 1]

\* Lambda<Transformation, BitSet>: the set of images
Lambda(x) == {x[i] : i \in 1..Len(x)}

\* Rho<Transformation, T>: the kernel, as the vector of the class numbers in
\* order of first appearance
Rho(x) ==
  [i \in 1..Len(x) |->
     LET first == CHOOSE m \in 1..i : x[m] = x[i] /\ \A l \in 1..(m - 1) : x[l] # x[i]
     IN Cardinality({x[l] : l \in 1..first}) - 1]

\* Rank<Transformation>: crank(), the number of distinct images
KonRank(x) == Cardinality(Lambda(x))

\* ImageRightAction<Transformation, BitSet>: the image of the set pt under x
ImageRightAction(pt, x) == {x[i + 1] : i \in pt}

\* ImageLeftAction<Transformation, T>: the kernel of x followed by pt
ImageLeftAction(pt, x) == Rho([i \in 1..Len(x) |-> pt[x[i] + 1]])

\* operator< of two transformations: the vectors compared lexicographically
RECURSIVE LexLess(_, _)
LexLess(x, y) ==
  IF x = <<>> \/ y = <<>> THEN x = <<>> /\ y # <<>>
  ELSE IF Head(x) # Head(y) THEN Head(x) < Head(y)
  ELSE LexLess(Tail(x), Tail(y))

\* the elements of the set S in increasing order (std::sort and std::unique)
SortedSeq(S) ==
  [i \in 1..Cardinality(S) |->
     CHOOSE x \in S : Cardinality({y \in S : LexLess(y, x)}) = i - 1]

\* the numbers of the set S in increasing order
SortedNums(S) ==
  [i \in 1..Cardinality(S) |->
     CHOOSE x \in S : Cardinality({y \in S : y < x}) = i - 1]

\* the position of x in the sequence s (0-based), or UNDEFINED
PositionIn(s, x) ==
  IF \E i \in 1..Len(s) : s[i] = x
    THEN (CHOOSE i \in 1..Len(s) : s[i] = x) - 1
    ELSE UNDEFINED

(***************************************************************************)
(* The two orbits of the D-class engine (RightAction / LeftAction of       *)
(* action.hpp, which konieczny.hpp includes): points in the order of       *)
(* Orb::enumerate, strongly connected components of the generator edge     *)
(* table, and multipliers to and from the root of each component.          *)
(* side = "right" for the lambda orbit, "left" for the rho orbit.          *)
(***************************************************************************)
\* the action of a generator on a point
ActOn(side, pt, g) ==
  IF side = "right" THEN ImageRightAction(pt, g) ELSE ImageLeftAction(pt, g)

\* the product of two elements as the orbit of that side takes it
SideMul(side, a, b) == IF side = "right" THEN Mul(a, b) ELSE Mul(b, a)

RECURSIVE ActionRow(_, _, _, _, _)
\* the inner loop of run(): the images of the point pts[i] under the
\* generators from gens[k] on; an image not seen before is appended
ActionRow(side, gens, pts, i, k) ==
  IF k > Len(gens) THEN pts
  ELSE IF PositionIn(pts, ActOn(side, pts[i], gens[k])) = UNDEFINED
    THEN ActionRow(side, gens, Append(pts, ActOn(side, pts[i], gens[k])), i, k + 1)
    ELSE ActionRow(side, gens, pts, i, k + 1)

RECURSIVE ActionRun(_, _, _, _)
\* run(): the loops of Orb::enumerate over the growing list of points
ActionRun(side, gens, pts, i) ==
  IF i > Len(pts) THEN pts
  ELSE ActionRun(side, gens, ActionRow(side, gens, pts, i, 1), i + 1)

\* the generator edge table: the index of the image of point i under gens[k]
ActionEdge(side, gens, pts, i, k) == PositionIn(pts, ActOn(side, pts[i + 1], gens[k]))

\* the edges i -> j of the action digraph
ActionEdges(side, gens, pts) ==
  {<<i, ActionEdge(side, gens, pts, i, k)>> : i \in 0..(Len(pts) - 1), k \in 1..Len(gens)}

RECURSIVE ReachFrom(_, _)
ReachFrom(E, S) ==
  LET T == S \cup {e[2] : e \in {d \in E : d[1] \in S}}
  IN IF T = S THEN S ELSE ReachFrom(E, T)

\* scc_id of every index: the component is named by its root, the least
\* index in it
ActionSccIds(n, E) ==
  LET reach == [i \in 0..(n - 1) |-> ReachFrom(E, {i})]
  IN [i \in 1..n |->
        CHOOSE r \in 0..(n - 1) :
          /\ r \in reach[i - 1] /\ (i - 1) \in reach[r]
          /\ \A q \in 0..(r - 1) : ~(q \in reach[i - 1] /\ (i - 1) \in reach[q])]

RECURSIVE FromRootRow(_, _, _, _, _, _, _)
\* the pairs (i, k) of one point i: a point j = i . gens[k] of the same
\* component that has no multiplier yet gets the one of i times gens[k]
FromRootRow(side, gens, pts, scc, m, i, k) ==
  IF k > Len(gens) \/ m[i + 1] = <<>> THEN m
  ELSE IF /\ scc[ActionEdge(side, gens, pts, i, k) + 1] = scc[i + 1]
          /\ m[ActionEdge(side, gens, pts, i, k) + 1] = <<>>
    THEN FromRootRow(side, gens, pts, scc,
           [m EXCEPT ![ActionEdge(side, gens, pts, i, k) + 1] =
                        SideMul(side, m[i + 1], gens[k])],
           i, k + 1)
    ELSE FromRootRow(side, gens, pts, scc, m, i, k + 1)

RECURSIVE FromRootPass(_, _, _, _, _, _)
\* one sweep over the points i
FromRootPass(side, gens, pts, scc, m, i) ==
  IF i >= Len(m) THEN m
  ELSE FromRootPass(side, gens, pts, scc, FromRootRow(side, gens, pts, scc, m, i, 1), i + 1)

RECURSIVE FromRootAll(_, _, _, _, _)
\* sweeps until no multiplier is added
FromRootAll(side, gens, pts, scc, m) ==
  IF FromRootPass(side, gens, pts, scc, m, 0) = m THEN m
  ELSE FromRootAll(side, gens, pts, scc, FromRootPass(side, gens, pts, scc, m, 0))

RECURSIVE ToRootRow(_, _, _, _, _, _, _)
\* the pairs (i, k) of one point i: a point i without multiplier whose image
\* j = i . gens[k] in the same component has one gets gens[k] times that one
ToRootRow(side, gens, pts, scc, m, i, k) ==
  IF k > Len(gens) \/ m[i + 1] # <<>> THEN m
  ELSE IF /\ scc[ActionEdge(side, gens, pts, i, k) + 1] = scc[i + 1]
          /\ m[ActionEdge(side, gens, pts, i, k) + 1] # <<>>
    THEN [m EXCEPT ![i + 1] =
                     SideMul(side, gens[k], m[ActionEdge(side, gens, pts, i, k) + 1])]
    ELSE ToRootRow(side, gens, pts, scc, m, i, k + 1)

RECURSIVE ToRootPass(_, _, _, _, _, _)
\* one sweep over the points i
ToRootPass(side, gens, pts, scc, m, i) ==
  IF i >= Len(m) THEN m
  ELSE ToRootPass(side, gens, pts, scc, ToRootRow(side, gens, pts, scc, m, i, 1), i + 1)

RECURSIVE ToRootAll(_, _, _, _, _)
\* sweeps until no multiplier is added
ToRootAll(side, gens, pts, scc, m) ==
  IF ToRootPass(side, gens, pts, scc, m, 0) = m THEN m
  ELSE ToRootAll(side, gens, pts, scc, ToRootPass(side, gens, pts, scc, m, 0))

\* the multipliers of the orbit with points pts and components scc
ActionMults(side, gens, pts, scc, start) ==
  [pts |-> pts, scc |-> scc,
   from |-> FromRootAll(side, gens, pts, scc, start),
   to |-> ToRootAll(side, gens, pts, scc, start)]

\* the components of the orbit with points pts; the root of a component has
\* the identity as its multiplier
ActionSccs(side, gens, pts, scc) ==
  ActionMults(side, gens, pts, scc,
              [i \in 1..Len(pts) |-> IF scc[i] = i - 1 THEN One(Len(gens[1])) ELSE <<>>])

\* the orbit with points pts
ActionOf(side, gens, pts) ==
  ActionSccs(side, gens, pts, ActionSccIds(Len(pts), ActionEdges(side, gens, pts)))

\* the orbit of seed under gens after run(): the points, the root of the
\* component of every index, and the multipliers from and to that root
Action(side, gens, seed) == ActionOf(side, gens, ActionRun(side, gens, <<seed>>, 1))

\* the members of the component with root r, in increasing order
SccMembers(orb, r) == SortedNums({i \in 0..(Len(orb.pts) - 1) : orb.scc[i + 1] = r})

(***************************************************************************)
(* konieczny.hpp : helpers                                                 *)
(***************************************************************************)
\* the least element of a non-empty set of numbers
MinOf(S) == CHOOSE m \in S : \A q \in S : m <= q

\* the greatest element of a non-empty set of numbers (*ranks.rbegin())
MaxOf(S) == CHOOSE m \in S : \A q \in S : q <= m

\* the element that stands for the lambda value y in a product: it fixes the
\* points of y and sends the others to the least point of y
LambdaElement(y, n) == [i \in 1..n |-> IF (i - 1) \in y THEN i - 1 ELSE MinOf(y)]

\* is_group_index(x, y): x a rho value, y a lambda value
is_group_index(x, y) ==
  LET yx == Mul(LambdaElement(y, Len(x)), x)
  IN Lambda(yx) = Lambda(x) /\ Rho(yx) = Rho(LambdaElement(y, Len(x)))

RECURSIVE GroupInverseLoop(_, _, _, _)
\* the do-while of group_inverse; <<>> when the powers cycle without ever
\* reaching id, that is when the loop never exits
GroupInverseLoop(id, bm, tmp, seen) ==
  LET y == tmp
      next == Mul(bm, y)
  IN IF next = id THEN y
     ELSE IF next \in seen THEN <<>>
     ELSE GroupInverseLoop(id, bm, next, seen \cup {next})

\* a group_inverse that returns the identity
group_inverse_id(id, bm) == id

\* group_inverse(id, bm)
group_inverse(id, bm) ==
  IF bm = <<>> THEN <<>> ELSE GroupInverseLoop(id, bm, bm, {bm})

RECURSIVE IdemPowerLoop(_, _)
\* while (tmp * tmp != tmp) tmp = tmp * bm
IdemPowerLoop(tmp, bm) ==
  IF Mul(tmp, tmp) = tmp THEN tmp ELSE IdemPowerLoop(Mul(tmp, bm), bm)

\* idem_in_H_class(bm)
idem_in_H_class(bm) == IdemPowerLoop(bm, bm)

\* the first entry of the sequence s that satisfies P, or UNDEFINED
FirstWith(s, P(_)) ==
  IF \E i \in 1..Len(s) : P(s[i])
    THEN s[MinOf({i \in 1..Len(s) : P(s[i])})]
    ELSE UNDEFINED

\* the value _group_indices holds for the key (rv, lval_scc_id): the first
\* index of that lambda component that is a group index with rv
GroupIndex(K, rv, lval_scc_id) ==
  FirstWith(SccMembers(K.lam, lval_scc_id),
            LAMBDA it : is_group_index(rv, K.lam.pts[it + 1]))

\* the value _group_indices_alt holds for the key (rval_scc_id, it): the
\* first index of that rho component that is a group index with lambda it
GroupIndexAlt(K, rval_scc_id, it) ==
  FirstWith(SccMembers(K.rho, rval_scc_id),
            LAMBDA it2 : is_group_index(K.rho.pts[it2 + 1], K.lam.pts[it + 1]))

\* find_group_index(bm)
find_group_index(K, bm) ==
  LET pos == PositionIn(K.lam.pts, Lambda(bm))
  IN GroupIndex(K, Rho(bm), K.lam.scc[pos + 1])

\* is_regular_element(bm)
is_regular_element(K, bm) == find_group_index(K, bm) # UNDEFINED

\* a find_idem that looks for the idempotent among the powers of bm itself
find_idem_power(K, bm) == idem_in_H_class(bm)

\* find_idem(bm); for a bm that is not regular an element that stands for
\* UNDEFINED is returned, here the empty tuple
find_idem(K, bm) ==
  IF Mul(bm, bm) = bm THEN bm
  ELSE IF ~is_regular_element(K, bm) THEN <<>>
  ELSE LET i == find_group_index(K, bm)
           pos == PositionIn(K.lam.pts, Lambda(bm))
       IN idem_in_H_class(Mul(Mul(bm, K.lam.to[pos + 1]), K.lam.from[i + 1]))

(***************************************************************************)
(* RegularDClass                                                           *)
(***************************************************************************)
RECURSIVE RegularHRow(_, _, _, _)
\* the inner loop: the products of H[i] with the generators from gens[k] on
RegularHRow(H, gens, i, k) ==
  IF k > Len(gens) THEN H
  ELSE IF PositionIn(H, Mul(H[i], gens[k])) = UNDEFINED
    THEN RegularHRow(Append(H, Mul(H[i], gens[k])), gens, i, k + 1)
    ELSE RegularHRow(H, gens, i, k + 1)

RECURSIVE RegularHClass(_, _, _)
\* the loops of compute_H_class of a regular class: the closure of H_gens
\* under right multiplication by H_gens, in the order of discovery
RegularHClass(H, gens, i) ==
  IF i > Len(H) THEN H
  ELSE RegularHClass(RegularHRow(H, gens, i, 1), gens, i + 1)

\* a class right after its constructor: the representative, nothing computed
NewClass(regular, rep) ==
  [regular |-> regular, rank |-> KonRank(rep), rep |-> rep,
   H_class |-> <<>>,
   left_mults |-> <<>>, left_mults_inv |-> <<>>, left_reps |-> <<>>,
   right_mults |-> <<>>, right_mults_inv |-> <<>>, right_reps |-> <<>>,
   lambda_vals |-> <<>>, rho_vals |-> <<>>,
   left_indices |-> <<>>, right_indices |-> <<>>,
   left_idem_reps |-> <<>>, right_idem_reps |-> <<>>,
   H_gens |-> <<>>,
   left_idem_above |-> <<>>, right_idem_above |-> <<>>,
   left_idem_class |-> UNDEFINED, right_idem_class |-> UNDEFINED,
   \* history: the arguments <<id, bm>> of the group_inverse calls of init()
   inverse_calls |-> {}]

\* _lambda_orb.position(Lambda(_rep)) and _rho_orb.position(Rho(_rep))
LvalPos(K, D) == PositionIn(K.lam.pts, Lambda(D.rep))
RvalPos(K, D) == PositionIn(K.rho.pts, Rho(D.rep))

\* compute_left_indices()
compute_left_indices(K, D) ==
  LET lval_scc_id == K.lam.scc[LvalPos(K, D) + 1]
      rval_scc_id == K.rho.scc[RvalPos(K, D) + 1]
  IN [D EXCEPT !.left_indices =
        SelectSeq(SccMembers(K.lam, lval_scc_id),
                  LAMBDA it : GroupIndexAlt(K, rval_scc_id, it) # UNDEFINED)]

\* compute_right_indices()
compute_right_indices(K, D) ==
  LET rval_pos == RvalPos(K, D)
      rval_scc_id == K.rho.scc[rval_pos + 1]
  IN [D EXCEPT !.right_indices =
        SelectSeq(SccMembers(K.rho, rval_scc_id),
                  LAMBDA it :
                    find_group_index(K, Mul(Mul(K.rho.from[it + 1], K.rho.to[rval_pos + 1]),
                                            D.rep))
                      # UNDEFINED)]

\* compute_mults(), with the values _lambda_val_positions and
\* _rho_val_positions are keyed by
compute_mults(K, D) ==
  LET lval_pos == LvalPos(K, D)
      rval_pos == RvalPos(K, D)
      nl == Len(D.left_indices)
      nr == Len(D.right_indices)
  IN [D EXCEPT
        !.left_mults =
           [i \in 1..nl |-> Mul(K.lam.to[lval_pos + 1], K.lam.from[D.left_indices[i] + 1])],
        !.left_mults_inv =
           [i \in 1..nl |-> Mul(K.lam.to[D.left_indices[i] + 1], K.lam.from[lval_pos + 1])],
        !.right_mults =
           [i \in 1..nr |-> Mul(K.rho.from[D.right_indices[i] + 1], K.rho.to[rval_pos + 1])],
        !.right_mults_inv =
           [i \in 1..nr |-> Mul(K.rho.from[rval_pos + 1], K.rho.to[D.right_indices[i] + 1])],
        !.lambda_vals = [i \in 1..nl |-> K.lam.pts[D.left_indices[i] + 1]],
        !.rho_vals = [i \in 1..nr |-> K.rho.pts[D.right_indices[i] + 1]]]

\* compute_reps()
compute_reps(D) ==
  [D EXCEPT !.left_reps = [i \in 1..Len(D.left_mults) |-> Mul(D.rep, D.left_mults[i])],
            !.right_reps = [i \in 1..Len(D.right_mults) |-> Mul(D.right_mults[i], D.rep)]]

\* compute_idem_reps()
compute_idem_reps(K, D) ==
  LET lval_scc_id == K.lam.scc[LvalPos(K, D) + 1]
      rval_scc_id == K.rho.scc[RvalPos(K, D) + 1]
  IN [D EXCEPT
        !.left_idem_reps =
           [i \in 1..Len(D.left_indices) |->
              LET k == GroupIndexAlt(K, rval_scc_id, D.left_indices[i])
                  j == PositionIn(D.right_indices, k) + 1
                  x == Mul(Mul(D.right_mults[j], D.rep), D.left_mults[i])
              IN IdemPowerLoop(x, x)],
        !.right_idem_reps =
           [j \in 1..Len(D.right_indices) |->
              LET k == GroupIndex(K, K.rho.pts[D.right_indices[j] + 1], lval_scc_id)
                  i == PositionIn(D.left_indices, k) + 1
                  x == Mul(Mul(D.right_mults[j], D.rep), D.left_mults[i])
              IN IdemPowerLoop(x, x)]]

\* the first loop of compute_H_gens(): the local right_invs
RightInvs(K, D) ==
  LET rval_scc_id == K.rho.scc[RvalPos(K, D) + 1]
  IN [i \in 1..Len(D.left_indices) |->
        LET k == GroupIndexAlt(K, rval_scc_id, D.left_indices[i])
            j == PositionIn(D.right_indices, k) + 1
        IN Mul(D.right_reps[j],
               group_inverse(D.rep, Mul(D.left_reps[i], D.right_reps[j])))]

\* the second loop of compute_H_gens(), given right_invs
HGens(K, D, right_invs) ==
  SortedSeq({ Mul(Mul(D.left_reps[ig[1]], K.gens[ig[2]]),
                  right_invs[PositionIn(D.lambda_vals,
                                        Lambda(Mul(D.left_reps[ig[1]], K.gens[ig[2]]))) + 1])
              : ig \in { p \in (1..Len(D.left_indices)) \X (1..Len(K.gens)) :
                          PositionIn(D.lambda_vals,
                                     Lambda(Mul(D.left_reps[p[1]], K.gens[p[2]])))
                            # UNDEFINED } })

\* the arguments of the group_inverse calls of the first loop of
\* compute_H_gens()
RightInvCalls(K, D) ==
  LET rval_scc_id == K.rho.scc[RvalPos(K, D) + 1]
  IN {<<D.rep,
        Mul(D.left_reps[i],
            D.right_reps[PositionIn(D.right_indices,
                           GroupIndexAlt(K, rval_scc_id, D.left_indices[i])) + 1])>> :
        i \in 1..Len(D.left_indices)}

\* compute_H_gens()
compute_H_gens(K, D) ==
  [D EXCEPT !.H_gens = HGens(K, D, RightInvs(K, D)),
            !.inverse_calls = RightInvCalls(K, D)]

\* compute_H_class() of a regular class
compute_H_class(D) == [D EXCEPT !.H_class = RegularHClass(D.H_gens, D.H_gens, 1)]

\* RegularDClass(parent, idem_rep) followed by init()
RegularDClass(K, rep) ==
  compute_H_class(
    compute_H_gens(K,
      compute_idem_reps(K,
        compute_reps(
          compute_mults(K,
            compute_right_indices(K,
              compute_left_indices(K, NewClass(TRUE, rep))))))))

\* RegularDClass::index_positions(bm)
index_positions(D, bm) ==
  LET l == PositionIn(D.lambda_vals, Lambda(bm))
      r == PositionIn(D.rho_vals, Rho(bm))
  IN IF l # UNDEFINED /\ r # UNDEFINED THEN <<l, r>> ELSE <<UNDEFINED, UNDEFINED>>

\* RegularDClass::contains(bm)
RegularContains(D, bm) == index_positions(D, bm)[1] # UNDEFINED

\* a count that takes every H-class of the class to hold an idempotent
nr_idempotents_all(K, D) == Len(D.left_indices) * Len(D.right_indices)

\* RegularDClass::nr_idempotents()
nr_idempotents(K, D) ==
  Cardinality({ p \in (1..Len(D.left_indices)) \X (1..Len(D.right_indices)) :
                  is_group_index(K.rho.pts[D.right_indices[p[2]] + 1],
                                 K.lam.pts[D.left_indices[p[1]] + 1]) })

(***************************************************************************)
(* NonRegularDClass                                                        *)
(***************************************************************************)
\* find_idems_above, one side: the first idempotent representative e, over
\* the regular classes from the last to the first, with e a one-sided
\* identity of rep; <<idempotent, index of its class in regs>>
RECURSIVE FindIdemAbove(_, _, _, _)
FindIdemAbove(regs, it, rep, left) ==
  IF it = 0 THEN <<<<>>, UNDEFINED>>
  ELSE LET D == regs[it]
           cand == IF left THEN D.left_idem_reps ELSE D.right_idem_reps
           hit == {i \in 1..Len(cand) :
                     IF left THEN Mul(rep, cand[i]) = rep ELSE Mul(cand[i], rep) = rep}
       IN IF hit # {} THEN <<cand[MinOf(hit)], it>>
          ELSE FindIdemAbove(regs, it - 1, rep, left)

\* the sorted vector of the elements f(s), s in H, as the set of the pairs
\* <<element, number of times it occurs>>
SortedVector(H, f(_)) ==
  {<<e, Cardinality({i \in 1..Len(H) : f(H[i]) = e})>> : e \in {f(H[i]) : i \in 1..Len(H)}}

RECURSIVE NonRegularLeftRow(_, _, _, _, _, _)
\* the loop over i in left_idem_left_reps for one h of _left_idem_H_class;
\* acc holds the cosets seen and the reps and multipliers pushed so far
NonRegularLeftRow(rep, H, ctx, h, i, acc) ==
  IF i > Len(ctx.reps) THEN acc
  ELSE IF SortedVector(H, LAMBDA s : Mul(Mul(s, h), ctx.reps[i])) \in acc.seen
    THEN NonRegularLeftRow(rep, H, ctx, h, i + 1, acc)
    ELSE NonRegularLeftRow(rep, H, ctx, h, i + 1,
           [seen |-> acc.seen \cup {SortedVector(H, LAMBDA s : Mul(Mul(s, h), ctx.reps[i]))},
            h |-> acc.h,
            reps |-> Append(acc.reps, Mul(Mul(rep, h), ctx.reps[i])),
            mults |-> Append(acc.mults, Mul(h, ctx.reps[i])),
            mults_inv |->
              Append(acc.mults_inv,
                     Mul(Mul(ctx.mults_inv[i], ctx.idem_left_mult),
                         Mul(group_inverse(ctx.idem,
                                           Mul(Mul(ctx.reps[i], ctx.mults_inv[i]),
                                               ctx.idem_left_mult)),
                             group_inverse(ctx.idem, h)))),
            calls |-> acc.calls \cup
                        {<<ctx.idem, Mul(Mul(ctx.reps[i], ctx.mults_inv[i]),
                                         ctx.idem_left_mult)>>,
                         <<ctx.idem, h>>}])

RECURSIVE NonRegularLeft(_, _, _, _, _)
\* the loop over h in _left_idem_H_class; acc.h is the position of h
NonRegularLeft(rep, H, ctx, hs, acc) ==
  IF acc.h > Len(hs) THEN acc
  ELSE NonRegularLeft(rep, H, ctx, hs,
         [NonRegularLeftRow(rep, H, ctx, hs[acc.h], 1, acc) EXCEPT !.h = @ + 1])

RECURSIVE NonRegularRightRow(_, _, _, _, _, _)
\* the loop over i in right_idem_right_reps for one h of _right_idem_H_class
NonRegularRightRow(rep, H, ctx, h, i, acc) ==
  IF i > Len(ctx.reps) THEN acc
  ELSE IF SortedVector(H, LAMBDA s : Mul(Mul(ctx.reps[i], h), s)) \in acc.seen
    THEN NonRegularRightRow(rep, H, ctx, h, i + 1, acc)
    ELSE NonRegularRightRow(rep, H, ctx, h, i + 1,
           [seen |-> acc.seen \cup {SortedVector(H, LAMBDA s : Mul(Mul(ctx.reps[i], h), s))},
            h |-> acc.h,
            reps |-> Append(acc.reps, Mul(Mul(ctx.reps[i], h), rep)),
            mults |-> Append(acc.mults, Mul(ctx.reps[i], h)),
            mults_inv |->
              Append(acc.mults_inv,
                     Mul(Mul(Mul(group_inverse(ctx.idem, h),
                                 group_inverse(ctx.idem,
                                               Mul(Mul(ctx.idem_right_mult, ctx.mults_inv[i]),
                                                   ctx.reps[i]))),
                             ctx.idem_right_mult),
                         ctx.mults_inv[i])),
            calls |-> acc.calls \cup
                        {<<ctx.idem, h>>,
                         <<ctx.idem, Mul(Mul(ctx.idem_right_mult, ctx.mults_inv[i]),
                                         ctx.reps[i])>>}])

RECURSIVE NonRegularRight(_, _, _, _, _)
\* the loop over h in _right_idem_H_class; acc.h is the position of h
NonRegularRight(rep, H, ctx, hs, acc) ==
  IF acc.h > Len(hs) THEN acc
  ELSE NonRegularRight(rep, H, ctx, hs,
         [NonRegularRightRow(rep, H, ctx, hs[acc.h], 1, acc) EXCEPT !.h = @ + 1])

\* the members find_idems_above() sets, from what its two searches found
IdemsAbove(D, la, ra) ==
  [D EXCEPT !.left_idem_above = la[1], !.left_idem_class = la[2] - 1,
            !.right_idem_above = ra[1], !.right_idem_class = ra[2] - 1]

\* find_idems_above()
find_idems_above(regs, D) ==
  IdemsAbove(D, FindIdemAbove(regs, Len(regs), D.rep, TRUE),
             FindIdemAbove(regs, Len(regs), D.rep, FALSE))

\* the locals of compute_H_class() that come from the class LD of the left
\* idempotent above and from the class RD of the right idempotent above
IdemLocals(regs, D) ==
  LET LD == regs[D.left_idem_class + 1]
      RD == regs[D.right_idem_class + 1]
      left_idem_indices == index_positions(LD, D.left_idem_above)
      right_idem_indices == index_positions(RD, D.right_idem_above)
  IN [LD |-> LD, RD |-> RD,
      left_idem_left_mult |-> LD.left_mults[left_idem_indices[1] + 1],
      left_idem_right_mult |-> LD.right_mults[left_idem_indices[2] + 1],
      right_idem_left_mult |-> RD.left_mults[right_idem_indices[1] + 1],
      right_idem_right_mult |-> RD.right_mults[right_idem_indices[2] + 1]]

\* _left_idem_H_class, _right_idem_H_class, left_idem_left_reps and
\* right_idem_right_reps
IdemClasses(D, c) ==
  [left_idem_H_class |->
     [i \in 1..Len(c.LD.H_class) |->
        Mul(Mul(c.left_idem_right_mult, c.LD.H_class[i]), c.left_idem_left_mult)],
   right_idem_H_class |->
     [i \in 1..Len(c.RD.H_class) |->
        Mul(Mul(c.right_idem_right_mult, c.RD.H_class[i]), c.right_idem_left_mult)],
   left_idem_left_reps |->
     [i \in 1..Len(c.LD.left_mults) |->
        Mul(Mul(c.left_idem_right_mult, c.LD.rep), c.LD.left_mults[i])],
   right_idem_right_reps |->
     [i \in 1..Len(c.RD.right_mults) |->
        Mul(Mul(c.RD.right_mults[i], c.RD.rep), c.right_idem_left_mult)]]

\* _H_class: the intersection of Hex and xHf, sorted
NonRegularHClass(D, e) ==
  LET xHf == {Mul(D.rep, e.left_idem_H_class[i]) : i \in 1..Len(e.left_idem_H_class)}
      Hex == {Mul(e.right_idem_H_class[i], D.rep) : i \in 1..Len(e.right_idem_H_class)}
  IN SortedSeq(Hex \cap xHf)

\* the two loops over the cosets, given the H-class
NonRegularCosets(D, c, e, H_class) ==
  LET start == [seen |-> {}, h |-> 1, reps |-> <<>>, mults |-> <<>>, mults_inv |-> <<>>,
                calls |-> {}]
  IN [H_class |-> H_class,
      L |-> NonRegularLeft(D.rep, H_class,
              [reps |-> e.left_idem_left_reps, mults_inv |-> c.LD.left_mults_inv,
               idem |-> D.left_idem_above, idem_left_mult |-> c.left_idem_left_mult],
              e.left_idem_H_class, start),
      R |-> NonRegularRight(D.rep, H_class,
              [reps |-> e.right_idem_right_reps, mults_inv |-> c.RD.right_mults_inv,
               idem |-> D.right_idem_above, idem_right_mult |-> c.right_idem_right_mult],
              e.right_idem_H_class, start)]

\* the members of the class, from what the loops pushed
NonRegularFields(D, t) ==
  [D EXCEPT !.H_class = t.H_class,
            !.left_mults = t.L.mults, !.left_mults_inv = t.L.mults_inv,
            !.left_reps = t.L.reps,
            !.right_mults = t.R.mults, !.right_mults_inv = t.R.mults_inv,
            !.right_reps = t.R.reps,
            !.lambda_vals = [i \in 1..Len(t.L.reps) |-> Lambda(t.L.reps[i])],
            !.rho_vals = [i \in 1..Len(t.R.reps) |-> Rho(t.R.reps[i])],
            !.inverse_calls = t.L.calls \cup t.R.calls]

\* the rest of compute_H_class() of a non-regular class, given its locals
NonRegularWith(D, c, e) ==
  NonRegularFields(D, NonRegularCosets(D, c, e, NonRegularHClass(D, e)))

\* compute_H_class() of a non-regular class
NonRegular_compute_H_class(regs, D) ==
  NonRegularWith(D, IdemLocals(regs, D), IdemClasses(D, IdemLocals(regs, D)))

\* NonRegularDClass(parent, rep) followed by init(); regs are the regular
\* classes found so far, in the order of _regular_D_classes
NonRegularDClass(K, regs, rep) ==
  NonRegular_compute_H_class(regs, find_idems_above(regs, NewClass(FALSE, rep)))

\* NonRegularDClass::contains(bm)
NonRegularContains(D, bm) ==
  \E i \in 1..Len(D.lambda_vals), j \in 1..Len(D.rho_vals) :
    /\ D.lambda_vals[i] = Lambda(bm)
    /\ D.rho_vals[j] = Rho(bm)
    /\ PositionIn(D.H_class, Mul(Mul(D.right_mults_inv[j], bm), D.left_mults_inv[i]))
         # UNDEFINED

\* the virtual contains(bm) of a class
Contains(D, bm) == IF D.regular THEN RegularContains(D, bm) ELSE NonRegularContains(D, bm)

\* BaseDClass::contains(bm, rank)
ContainsRank(D, bm, rank) == rank = D.rank /\ Contains(D, bm)

\* BaseDClass::size()
DClassSize(D) == Len(D.H_class) * Len(D.left_reps) * Len(D.right_reps)

\* BaseDClass::covering_reps()
covering_reps(K, D) ==
  LET out ==
        IF Len(K.lam.pts) < Len(K.rho.pts)
          THEN {Mul(D.left_reps[i], K.gens[g]) :
                  i \in 1..Len(D.left_reps), g \in 1..Len(K.gens)}
          ELSE {Mul(K.gens[g], D.right_reps[i]) :
                  i \in 1..Len(D.right_reps), g \in 1..Len(K.gens)}
  IN SortedSeq({x \in out : ~Contains(D, x)})

(***************************************************************************)
(* Konieczny: the constructor runs compute_D_classes(); its outer while    *)
(* loop is followed one batch and one new D-class at a time.               *)
(***************************************************************************)
KonMaxGens == 2

\* the transformations of degree 3 the generator lists are drawn from
KonGenPool ==
  { <<1, 0, 2>>, <<1, 2, 0>>, <<0, 0, 2>>, <<0, 1, 1>>, <<1, 2, 2>>,
    <<1, 0, 0>>, <<1, 2, 1>>, <<0, 0, 1>>, <<1, 1, 0>> }

\* further generator lists: three maps of degree 4 whose non-regular classes
\* of rank 2 lie one above the other, generators of the full transformation
\* monoid of degree 4, and the generators of T in the test "contains"
KonExtraInputs ==
  { << <<0, 0, 1, 1>>, <<2, 3, 3, 3>>, <<2, 2, 3, 3>> >>,
    << <<1, 2, 3, 0>>, <<1, 0, 2, 3>>, <<0, 0, 2, 3>> >>,
    << <<1, 0, 3, 4, 2>>, <<0, 0, 2, 3, 4>> >> }

\* the generator lists the constructor is called with
KonInputs == {<<>>} \cup SeqsUpTo(KonGenPool, KonMaxGens) \cup KonExtraInputs

\* every transformation of degree n
Transformations(n) == [1..n -> 0..(n - 1)]

RECURSIVE ProductClosure(_, _)
\* the least set that holds S and every product of an element of it with a
\* generator
ProductClosure(S, G) ==
  LET T == S \cup {Product(s, g) : s \in S, g \in G}
  IN IF T = S THEN S ELSE ProductClosure(T, G)

\* the transformations of degree 5 the test "contains" asks T about
KonTestQueries ==
  { <<1, 0, 2, 3, 4>>, <<0, 0, 2, 3, 4>>, <<1, 2, 3, 4, 0>>, <<1, 2, 3, 0, 4>>,
    <<0, 2, 3, 4, 1>> }

\* the elements contains is asked about: every transformation of the degree
\* up to degree 4, above that the products of the generators and the
\* elements of the test
KonQueries(gens, dim) ==
  IF dim <= 4 THEN Transformations(dim)
  ELSE ProductClosure(Range(gens), Range(gens)) \cup {x \in KonTestQueries : Len(x) = dim}

KonInit ==
  /\ kPc = "new"
  /\ kInput = <<>>
  /\ kGens = <<>>
  /\ kDim = 1
  /\ kUnitInGens = FALSE
  /\ kLambdaOrb = [pts |-> <<>>, scc |-> <<>>, from |-> <<>>, to |-> <<>>]
  /\ kRhoOrb = [pts |-> <<>>, scc |-> <<>>, from |-> <<>>, to |-> <<>>]
  /\ kDClasses = <<>>
  /\ kDRels = <<>>
  /\ kRegularDClasses = <<>>
  /\ kRegReps = <<>>
  /\ kNonRegReps = <<>>
  /\ kRanks = {}
  /\ kMaxRank = 0
  /\ kNextReps = <<>>
  /\ kRepsAreReg = FALSE
  /\ kCall = [op |-> "none", x |-> <<>>, classes |-> {}, found |-> FALSE, size |-> 0, ret |-> <<>>]

KonIdle == KonInit

\* the engine as the D-class code sees it: generators and the two orbits
KonParent == [gens |-> kGens, lam |-> kLambdaOrb, rho |-> kRhoOrb]

\* the regular classes among ds, in the order of _regular_D_classes
RegularClasses(ds, regular) == [i \in 1..Len(regular) |-> ds[regular[i] + 1]]

\* compute_min_possible_dim(): the largest degree of a generator, at least 1
compute_min_possible_dim(gens) ==
  MaxOf({1} \cup {Len(gens[i]) : i \in 1..Len(gens)})

\* x * x.transpose() == one(dim): x is a permutation of the dim points
IsUnit(x, dim) == Lambda(x) = 0..(dim - 1)

\* conditional_add_identity(): <<_gens, _unit_in_gens>>
conditional_add_identity(gens, dim) ==
  LET unit == \E i \in 1..Len(gens) : IsUnit(gens[i], dim)
  IN <<IF unit THEN gens ELSE Append(gens, One(dim)), unit>>

\* the pairs <<x, idx>> of the covering reps xs of rank r that are regular
\* (or are not), in the order of xs
RepsOfRank(K, xs, idx, r, regular) ==
  [i \in 1..Len(SelectSeq(xs, LAMBDA x : KonRank(x) = r /\ is_regular_element(K, x) = regular))
     |-> <<SelectSeq(xs, LAMBDA x : KonRank(x) = r /\ is_regular_element(K, x) = regular)[i],
           idx>>]

\* the loop over the covering reps xs of the class with index idx: every x
\* goes to reg_reps[rank] or non_reg_reps[rank] and its rank to ranks
PushReps(K, tabs, xs, idx) ==
  [reg |-> [r \in DOMAIN tabs.reg |-> tabs.reg[r] \o RepsOfRank(K, xs, idx, r, TRUE)],
   non |-> [r \in DOMAIN tabs.non |-> tabs.non[r] \o RepsOfRank(K, xs, idx, r, FALSE)],
   ranks |-> tabs.ranks \cup {KonRank(xs[i]) : i \in 1..Len(xs)}]

\* the tables reg_reps, non_reg_reps and ranks before the first push
EmptyTabs(dim) ==
  [reg |-> [r \in 0..dim |-> <<>>], non |-> [r \in 0..dim |-> <<>>], ranks |-> {0}]

\* Konieczny(gens): compute_D_classes() up to the first test of the while
Konieczny(gens) ==
  /\ kPc = "new"
  /\ kInput' = gens
  /\ kDim' = compute_min_possible_dim(gens)
  /\ kGens' = conditional_add_identity(gens, kDim')[1]
  /\ kUnitInGens' = conditional_add_identity(gens, kDim')[2]
  /\ kLambdaOrb' = Action("right", kGens', Lambda(One(kDim')))
  /\ kRhoOrb' = Action("left", kGens', Rho(One(kDim')))
  /\ kDClasses' = <<RegularDClass(KonParent', One(kDim'))>>
  /\ kDRels' = << <<>> >>
  /\ kRegularDClasses' = <<0>>
  /\ \E tabs \in {PushReps(KonParent', EmptyTabs(kDim'),
                            covering_reps(KonParent', kDClasses'[1]), 0)} :
       /\ kRegReps' = tabs.reg
       /\ kNonRegReps' = tabs.non
       /\ kRanks' = tabs.ranks
  /\ kPc' = "while"
  /\ kCall' = [kCall EXCEPT !.op = "Konieczny"]
  /\ UNCHANGED <<kMaxRank, kNextReps, kRepsAreReg>>

\* the index of the first class that contains x at rank max_rank, or 0
FirstContaining(ds, x, max_rank) ==
  IF \E d \in 1..Len(ds) : ContainsRank(ds[d], x, max_rank)
    THEN MinOf({d \in 1..Len(ds) : ContainsRank(ds[d], x, max_rank)})
    ELSE 0

\* the second entries of the pairs of reps
Origins(reps) == [i \in 1..Len(reps) |-> reps[i][2]]

\* a filter that recognises no rep as contained in a class found before
FilterContained_keep_all(ds, rels, reps, max_rank) == [rels |-> rels, keep |-> reps]

\* lines 1132-1146: a rep some class contains at rank max_rank is dropped and
\* its origin recorded in the _D_rels of the first such class
FilterContained(ds, rels, reps, max_rank) ==
  [rels |->
     [d \in 1..Len(rels) |->
        rels[d] \o Origins(SelectSeq(reps,
                             LAMBDA r : FirstContaining(ds, r[1], max_rank) = d))],
   keep |-> SelectSeq(reps, LAMBDA r : FirstContaining(ds, r[1], max_rank) = 0)]

\* a head of the loop that prefers the non-regular representatives
SelectBatch_others_first ==
  /\ kPc = "while"
  /\ MaxOf(kRanks) > 0
  /\ LET max_rank == MaxOf(kRanks)
         reg == kNonRegReps[max_rank] = <<>>
         next_reps == IF reg THEN kRegReps[max_rank] ELSE kNonRegReps[max_rank]
     IN /\ kMaxRank' = max_rank
        /\ kRepsAreReg' = reg
        /\ kRegReps' = IF reg THEN [kRegReps EXCEPT ![max_rank] = <<>>] ELSE kRegReps
        /\ kNonRegReps' = IF reg THEN kNonRegReps ELSE [kNonRegReps EXCEPT ![max_rank] = <<>>]
        /\ \E f \in {FilterContained(kDClasses, kDRels, next_reps, max_rank)} :
             /\ kDRels' = f.rels
             /\ kNextReps' = f.keep
  /\ kPc' = "inner"
  /\ kCall' = [kCall EXCEPT !.op = "batch"]
  /\ UNCHANGED <<kInput, kDim, kGens, kUnitInGens, kLambdaOrb, kRhoOrb, kDClasses,
                 kRegularDClasses, kRanks>>

\* one pass of the head of the while loop, lines 1118-1146
SelectBatch ==
  /\ kPc = "while"
  /\ MaxOf(kRanks) > 0
  /\ LET max_rank == MaxOf(kRanks)
         reg == kRegReps[max_rank] # <<>>
         next_reps == IF reg THEN kRegReps[max_rank] ELSE kNonRegReps[max_rank]
     IN /\ kMaxRank' = max_rank
        /\ kRepsAreReg' = reg
        /\ kRegReps' = IF reg THEN [kRegReps EXCEPT ![max_rank] = <<>>] ELSE kRegReps
        /\ kNonRegReps' = IF reg THEN kNonRegReps ELSE [kNonRegReps EXCEPT ![max_rank] = <<>>]
        /\ \E f \in {FilterContained(kDClasses, kDRels, next_reps, max_rank)} :
             /\ kDRels' = f.rels
             /\ kNextReps' = f.keep
  /\ kPc' = "inner"
  /\ kCall' = [kCall EXCEPT !.op = "batch"]
  /\ UNCHANGED <<kInput, kDim, kGens, kUnitInGens, kLambdaOrb, kRhoOrb, kDClasses,
                 kRegularDClasses, kRanks>>

\* a filter that takes every remaining rep to lie in the new class
FilterNew_drop_all(D, own, reps) == [own |-> own \o Origins(reps), keep |-> <<>>]

\* lines 1187-1195: the reps the new class D contains are dropped
FilterNew(D, own, reps) ==
  [own |-> own \o Origins(SelectSeq(reps, LAMBDA r : Contains(D, r[1]))),
   keep |-> SelectSeq(reps, LAMBDA r : ~Contains(D, r[1]))]

\* the class made of the rep at the back of next_reps
MakeDClass(K, regs, reps_are_reg, rep) ==
  IF reps_are_reg THEN RegularDClass(K, find_idem(K, rep))
  ELSE NonRegularDClass(K, regs, rep)

\* an add_D_class that puts the new class in front of the others
add_D_class_front(ds, D) == <<D>> \o ds

\* add_D_class(D), on _D_classes
add_D_class(ds, D) == Append(ds, D)

\* one pass of the inner while loop, lines 1148-1196
NewDClass ==
  /\ kPc = "inner"
  /\ kNextReps # <<>>
  /\ \E D \in {MakeDClass(KonParent, RegularClasses(kDClasses, kRegularDClasses),
                            kRepsAreReg, kNextReps[Len(kNextReps)][1])} :
       /\ kDClasses' = add_D_class(kDClasses, D)
       /\ \E tabs \in {PushReps(KonParent,
                                 [reg |-> kRegReps, non |-> kNonRegReps, ranks |-> kRanks],
                                 covering_reps(KonParent, D), Len(kDClasses))} :
            /\ kRegReps' = tabs.reg
            /\ kNonRegReps' = tabs.non
            /\ kRanks' = tabs.ranks
       /\ \E f \in {FilterNew(D, <<>>, SubSeq(kNextReps, 1, Len(kNextReps) - 1))} :
            /\ kDRels' = Append(kDRels, f.own)
            /\ kNextReps' = f.keep
  /\ kRegularDClasses' =
       IF kRepsAreReg THEN Append(kRegularDClasses, Len(kDClasses)) ELSE kRegularDClasses
  /\ kCall' = [kCall EXCEPT !.op = "class"]
  /\ UNCHANGED <<kPc, kInput, kDim, kGens, kUnitInGens, kLambdaOrb, kRhoOrb, kMaxRank,
                 kRepsAreReg>>

\* a tail of the loop that never erases a rank
EndBatch_keep_rank ==
  /\ kPc = "inner"
  /\ kNextReps = <<>>
  /\ UNCHANGED <<kRanks, kMaxRank>>
  /\ kPc' = "while"
  /\ kCall' = [kCall EXCEPT !.op = "end"]
  /\ UNCHANGED <<kInput, kDim, kGens, kUnitInGens, kLambdaOrb, kRhoOrb, kDClasses, kDRels,
                 kRegularDClasses, kRegReps, kNonRegReps, kNextReps, kRepsAreReg>>

\* the tail of the while loop, lines 1197-1201
EndBatch ==
  /\ kPc = "inner"
  /\ kNextReps = <<>>
  /\ IF kNonRegReps[kMaxRank] = <<>>
       THEN /\ kRanks' = kRanks \ {kMaxRank}
            /\ kMaxRank' = MaxOf(kRanks \ {kMaxRank})
       ELSE UNCHANGED <<kRanks, kMaxRank>>
  /\ kPc' = "while"
  /\ kCall' = [kCall EXCEPT !.op = "end"]
  /\ UNCHANGED <<kInput, kDim, kGens, kUnitInGens, kLambdaOrb, kRhoOrb, kDClasses, kDRels,
                 kRegularDClasses, kRegReps, kNonRegReps, kNextReps, kRepsAreReg>>

\* the while loop exits and the constructor returns
Constructed ==
  /\ kPc = "while"
  /\ MaxOf(kRanks) = 0
  /\ kPc' = "done"
  /\ kCall' = [kCall EXCEPT !.op = "constructed"]
  /\ UNCHANGED <<kInput, kDim, kGens, kUnitInGens, kLambdaOrb, kRhoOrb, kDClasses, kDRels,
                 kRegularDClasses, kRegReps, kNonRegReps, kRanks, kMaxRank, kNextReps,
                 kRepsAreReg>>

RECURSIVE SumSizes(_, _)
\* the loop of size() from position it on
SumSizes(ds, it) == IF it > Len(ds) THEN 0 ELSE DClassSize(ds[it]) + SumSizes(ds, it + 1)

\* a size() that also counts the first class when the identity was adjoined
KonSizeOf_all(ds, unit_in_gens) == SumSizes(ds, 1)

\* size()
KonSizeOf(ds, unit_in_gens) == SumSizes(ds, IF unit_in_gens THEN 1 ELSE 2)

\* the classes that answer contains(x, rank(x)) with true
ClassesContaining(ds, x) ==
  {i \in 0..(Len(ds) - 1) : ContainsRank(ds[i + 1], x, KonRank(x))}

\* contains(x): the rank of x, then the walk over the classes
KonContainsOf(ds, x) == ClassesContaining(ds, x) # {}

KonSize ==
  /\ kPc = "done"
  /\ kCall' = [op |-> "size", x |-> <<>>, classes |-> {}, found |-> FALSE,
               size |-> KonSizeOf(kDClasses, kUnitInGens), ret |-> <<>>]
  /\ UNCHANGED <<kPc, kInput, kDim, kGens, kUnitInGens, kLambdaOrb, kRhoOrb, kDClasses,
                 kDRels, kRegularDClasses, kRegReps, kNonRegReps, kRanks, kMaxRank,
                 kNextReps, kRepsAreReg>>

KonContains(x) ==
  /\ kPc = "done"
  /\ kCall' = [op |-> "contains", x |-> x,
               classes |-> ClassesContaining(kDClasses, x),
               found |-> KonContainsOf(kDClasses, x), size |-> 0, ret |-> <<>>]
  /\ UNCHANGED <<kPc, kInput, kDim, kGens, kUnitInGens, kLambdaOrb, kRhoOrb, kDClasses,
                 kDRels, kRegularDClasses, kRegReps, kNonRegReps, kRanks, kMaxRank,
                 kNextReps, kRepsAreReg>>

\* the elements of the monoid the engine works in
KonMonoid == ProductClosure(Range(kGens), Range(kGens))

\* find_idem(x), called on the engine after its construction
KonFindIdem(x) ==
  /\ kPc = "done"
  /\ kCall' = [op |-> "find_idem", x |-> x, classes |-> {},
               found |-> is_regular_element(KonParent, x), size |-> 0,
               ret |-> find_idem(KonParent, x)]
  /\ UNCHANGED <<kPc, kInput, kDim, kGens, kUnitInGens, kLambdaOrb, kRhoOrb, kDClasses,
                 kDRels, kRegularDClasses, kRegReps, kNonRegReps, kRanks, kMaxRank,
                 kNextReps, kRepsAreReg>>

\* nr_idempotents() of every regular class, in the order of
\* _regular_D_classes
KonNrIdempotents ==
  /\ kPc = "done"
  /\ kCall' = [op |-> "nr_idempotents", x |-> <<>>, classes |-> {}, found |-> FALSE,
               size |-> 0,
               ret |-> [i \in 1..Len(kRegularDClasses) |->
                          nr_idempotents(KonParent, kDClasses[kRegularDClasses[i] + 1])]]
  /\ UNCHANGED <<kPc, kInput, kDim, kGens, kUnitInGens, kLambdaOrb, kRhoOrb, kDClasses,
                 kDRels, kRegularDClasses, kRegReps, kNonRegReps, kRanks, kMaxRank,
                 kNextReps, kRepsAreReg>>

\* a step of the engine leaves the other components alone
KonConstruct ==
  /\ \E gens \in KonInputs : Konieczny(gens)
  /\ UNCHANGED KonOthers

KonSelectBatch == SelectBatch /\ UNCHANGED KonOthers

KonNewDClass == NewDClass /\ UNCHANGED KonOthers

KonEndBatch == EndBatch /\ UNCHANGED KonOthers

KonConstructed == Constructed /\ UNCHANGED KonOthers

\* the calls below read the engine and overwrite nothing but the record of
\* the last call, so a call made after another call ends in the same state as
\* the same call made first: they are taken from the state the constructor
\* left
KonAskSize == kCall.op = "constructed" /\ KonSize /\ UNCHANGED KonOthers

KonAskContains ==
  /\ kCall.op = "constructed"
  /\ \E x \in KonQueries(kGens, kDim) : KonContains(x)
  /\ UNCHANGED KonOthers

KonAskIdem ==
  /\ kCall.op = "constructed"
  /\ \E x \in KonMonoid : KonFindIdem(x)
  /\ UNCHANGED KonOthers

KonAskIdempotents ==
  kCall.op = "constructed" /\ KonNrIdempotents /\ UNCHANGED KonOthers

KonNext ==
  \/ KonConstruct \/ KonSelectBatch \/ KonNewDClass \/ KonEndBatch \/ KonConstructed
  \/ KonAskSize \/ KonAskContains \/ KonAskIdem \/ KonAskIdempotents

(***************************************************************************)
(* Claims about the D-class engine                                         *)
(***************************************************************************)
\* the semigroup the generators given to the constructor generate
Semigroup == LET G == Range(kInput) IN ProductClosure(G, G)

\* C1: after construction every element x of the generated semigroup is in
\* exactly one D-class: contains(x, rank(x)) is true for exactly one class
\* and false for all the others.
C1_ExactlyOneDClass ==
  (kCall.op = "contains" /\ kCall.x \in Semigroup) => Cardinality(kCall.classes) = 1

\* a member of a non-regular class is asked for in an engine that found two
\* non-regular classes, and exactly that one class claims it
C1_Witness ==
  /\ kCall.op = "contains" /\ kCall.x \in Semigroup
  /\ Cardinality({i \in 1..Len(kDClasses) : ~kDClasses[i].regular}) > 1
  /\ \E i \in kCall.classes : ~kDClasses[i + 1].regular
  /\ Cardinality(kCall.classes) = 1

\* C2: for a non-empty generator list size() is the number of distinct
\* elements of the semigroup the generators generate; the identity the
\* engine adds for the computation is not counted.
C2_SizeIsCardinality ==
  (kCall.op = "size" /\ kInput # <<>>) => kCall.size = Cardinality(Semigroup)

\* size() was called on an engine that added the identity itself and found
\* a non-regular class, and returned the number of elements
C2_Witness ==
  /\ kCall.op = "size" /\ ~kUnitInGens /\ Len(kInput) > 0
  /\ \E i \in 1..Len(kDClasses) : ~kDClasses[i].regular
  /\ kCall.size = Cardinality(Semigroup) /\ kCall.size > 2

\* C3: contains(x) is true for every x of the generated semigroup.
C3_MembersContained ==
  (kCall.op = "contains" /\ kCall.x \in Semigroup) => kCall.found

\* contains was asked for a member that is no generator and lies in a
\* non-regular class, and answered true
C3_Witness ==
  /\ kCall.op = "contains" /\ kCall.x \in Semigroup /\ kCall.x \notin Range(kInput)
  /\ \E i \in 1..Len(kDClasses) : ~kDClasses[i].regular /\ Contains(kDClasses[i], kCall.x)
  /\ kCall.found

\* C4: contains(x) is false for every transformation x of the degree of the
\* generators that is not in the generated semigroup, also when the lambda
\* and the rho value of x occur in a D-class (the identity the engine added
\* itself is left aside here).
C4_NonMembersRejected ==
  (/\ kCall.op = "contains"
   /\ kCall.x \notin Semigroup
   /\ ~(~kUnitInGens /\ kCall.x = One(kDim))) => ~kCall.found

\* the engine of the test "contains" was asked for the 5-cycle
\* <<1, 2, 3, 4, 0>>, which its generators do not generate
C4_Witness ==
  /\ kCall.op = "contains"
  /\ kInput = << <<1, 0, 3, 4, 2>>, <<0, 0, 2, 3, 4>> >>
  /\ kCall.x = <<1, 2, 3, 4, 0>>
  /\ kCall.x \notin Semigroup

\* x is regular in the monoid M: x = x * y * x for some y
IsRegular(M, x) == \E y \in M : Mul(Mul(x, y), x) = x

\* e is in the two-sided ideal of x in the monoid M
InIdeal(M, x, e) == \E a \in M : \E b \in M : Mul(Mul(a, x), b) = e

\* x and e lie in the same D-class of the finite monoid M: each is in the
\* two-sided ideal of the other
DRelated(M, x, e) == InIdeal(M, x, e) /\ InIdeal(M, e, x)

\* C17: for every regular element x of the semigroup find_idem(x) returns an
\* element e with e * e = e that lies in the D-class of x: x and e generate
\* the same two-sided ideal, and the D-class of the engine that contains x
\* also contains e.
C17_FindIdem ==
  (kCall.op = "find_idem" /\ IsRegular(KonMonoid, kCall.x)) =>
     /\ kCall.ret # <<>>
     /\ Mul(kCall.ret, kCall.ret) = kCall.ret
     /\ DRelated(KonMonoid, kCall.x, kCall.ret)
     /\ ClassesContaining(kDClasses, kCall.x) # {}
     /\ ClassesContaining(kDClasses, kCall.x) \subseteq ClassesContaining(kDClasses, kCall.ret)

\* find_idem was asked for a regular element that is neither idempotent nor
\* a unit, and returned an idempotent that is none of the powers of x
C17_Witness ==
  /\ kCall.op = "find_idem" /\ IsRegular(KonMonoid, kCall.x)
  /\ Mul(kCall.x, kCall.x) # kCall.x
  /\ KonRank(kCall.x) < kDim
  /\ kCall.ret # idem_in_H_class(kCall.x)
  /\ Mul(kCall.ret, kCall.ret) = kCall.ret

\* the idempotents of a set of elements
Idempotents(S) == {e \in S : Mul(e, e) = e}

RECURSIVE SumFrom(_, _)
\* the sum of the entries of the sequence s from position it on
SumFrom(s, it) == IF it > Len(s) THEN 0 ELSE s[it] + SumFrom(s, it + 1)

C19_DiscoveryOrder ==
  /\ [](kDClasses # <<>> =>
          /\ kDClasses[1].rep = One(kDim)
          /\ \A i, j \in 1..Len(kDClasses) :
               i < j => KonRank(kDClasses[i].rep) >= KonRank(kDClasses[j].rep))
  /\ [][ kDClasses # <<>> =>
           /\ Len(kDClasses') >= Len(kDClasses)
           /\ SubSeq(kDClasses', 1, Len(kDClasses)) = kDClasses ]_vars

\* the construction ended with classes of three ranks, two of them of one
\* rank
C19_Witness ==
  /\ kPc = "done" /\ Len(kDClasses) >= 4
  /\ Cardinality({KonRank(kDClasses[i].rep) : i \in 1..Len(kDClasses)}) >= 3
  /\ \E i \in 1..(Len(kDClasses) - 1) :
       KonRank(kDClasses[i].rep) = KonRank(kDClasses[i + 1].rep)

\* C20: constructing the engine with an empty generator list fails, and the
\* failed construction leaves no D-class, orbit point or adjoined generator
\* behind.
C20_EmptyGeneratorsFail ==
  (kInput = <<>> /\ kCall.op # "none") =>
     /\ kPc = "failed"
     /\ kDClasses = <<>> /\ kGens = <<>>
     /\ kLambdaOrb.pts = <<>> /\ kRhoOrb.pts = <<>>

\* the construction from no generators has ended as any other: the identity
\* of degree 1 was adjoined and its D-class was built
C20_Witness ==
  /\ kInput = <<>> /\ kPc = "done"
  /\ kGens = <<One(1)>> /\ Len(kDClasses) = 1
  /\ kLambdaOrb.pts # <<>>

\* C23: for every representative (x, p) taken from the ranked queues the
\* parent index p is in the D-relation list of the D-class that ends up
\* containing x, both when x is found in a class that exists already (the
\* head of the loop) and when x opens a new class or lies in the class just
\* opened (the inner loop).
C23_ParentsRecorded ==
  [][ /\ kCall'.op = "batch" =>
           \A r \in Range(IF kRegReps[kMaxRank'] # <<>>
                             THEN kRegReps[kMaxRank'] ELSE kNonRegReps[kMaxRank']) :
              \A d \in 1..Len(kDClasses) :
                 FirstContaining(kDClasses, r[1], kMaxRank') = d =>
                    r[2] \in Range(kDRels'[d])
      /\ kCall'.op = "class" =>
           \A r \in Range(kNextReps) :
              Contains(kDClasses'[Len(kDClasses')], r[1]) =>
                 r[2] \in Range(kDRels'[Len(kDRels')])
    ]_vars

\* a class has just been opened by a representative that came from some
\* class, and the D-relation list of the new class is empty
C23_Witness ==
  /\ kCall.op = "class" /\ Len(kDClasses) >= 2
  /\ Len(kDRels) = Len(kDClasses)
  /\ kDRels[Len(kDRels)] = <<>>

\* C24: at each rank the regular representatives are handled before the
\* others: a non-regular batch of rank r is taken only when no regular
\* representative of rank r is queued, and at the end of every pass of the
\* loop no regular representative of the rank of the batch is queued (the
\* assertion reg_reps[max_rank].empty() holds).
C24_RegularFirst ==
  [][ /\ (kCall'.op = "batch" /\ ~kRepsAreReg') => kRegReps[kMaxRank'] = <<>>
      /\ kCall'.op = "end" => kRegReps[kMaxRank] = <<>>
    ]_vars

\* a pass over a non-regular batch has just ended at a rank at which a
\* regular class had been built before
C24_Witness ==
  /\ kCall.op = "end" /\ ~kRepsAreReg /\ kMaxRank > 0
  /\ \E i \in 1..Len(kDClasses) :
       kDClasses[i].regular /\ KonRank(kDClasses[i].rep) = KonRank(kDClasses[Len(kDClasses)].rep)
  /\ ~kDClasses[Len(kDClasses)].regular

\* C25: for every generator list the main loop of compute_D_classes ends,
\* and when it has ended no representative of positive rank is left in
\* reg_reps or in non_reg_reps.
C25_LoopTerminates ==
  /\ (kPc \in {"while", "inner"}) ~> (kPc = "done")
  /\ [](kPc = "done" =>
          \A r \in 1..kDim : kRegReps[r] = <<>> /\ kNonRegReps[r] = <<>>)

\* the loop has ended after it built classes of both kinds at three ranks
C25_Witness ==
  /\ kPc = "done" /\ kCall.op = "constructed" /\ kRanks = {0}
  /\ \E i \in 1..Len(kDClasses) : ~kDClasses[i].regular
  /\ Cardinality({KonRank(kDClasses[i].rep) : i \in 1..Len(kDClasses)}) = 3

\* the powers bm, bm^2, ... of an element
RECURSIVE PowersFrom(_, _, _)
PowersFrom(bm, tmp, seen) ==
  IF Mul(bm, tmp) \in seen THEN seen
  ELSE PowersFrom(bm, Mul(bm, tmp), seen \cup {Mul(bm, tmp)})

\* h lies in the group H-class whose identity is the idempotent e
InGroupHClass(e, h) ==
  /\ h # <<>> /\ e # <<>>
  /\ Mul(e, e) = e /\ Mul(e, h) = h /\ Mul(h, e) = h
  /\ e \in PowersFrom(h, h, {h})

\* C30: every call group_inverse(e, h) made while the D-classes are built
\* ends and returns y with h * y = e, and every h passed lies in the group
\* H-class whose identity is the idempotent e.
C30_GroupInverseCalls ==
  \A d \in 1..Len(kDClasses) : \A call \in kDClasses[d].inverse_calls :
    /\ InGroupHClass(call[1], call[2])
    /\ group_inverse(call[1], call[2]) # <<>>
    /\ Mul(call[2], group_inverse(call[1], call[2])) = call[1]

\* the constructor has ended; a non-regular class made a call
\* group_inverse(e, h) where h is not e, and a regular class made a call
C30_Witness ==
  /\ kPc = "done"
  /\ \E d \in 1..Len(kDClasses) :
       kDClasses[d].regular /\ kDClasses[d].inverse_calls # {}
  /\ \E d \in 1..Len(kDClasses) :
       ~kDClasses[d].regular /\ \E call \in kDClasses[d].inverse_calls : call[1] # call[2]

(***************************************************************************)
(* orb.h : OrbWithTree and GradedOrb. The points are sets of numbers below *)
(* 3, the elements are the transformations of degree 3, which act on a set *)
(* by taking its image; the grade of a set is the number of its members,   *)
(* which no transformation can raise.                                      *)
(***************************************************************************)
\* largest number of add_seed calls on one orbit
TreeMaxSeeds == 3

\* largest number of generators of an orbit with a tree
TreeMaxGens == 2

\* the generators of these orbits: two permutations and a map of rank 2
TreeGenPool == { <<1, 0, 2>>, <<1, 2, 0>>, <<0, 0, 2>> }

\* the points given as seeds
TreeSeedPool == { {0, 1, 2}, {0, 1}, {1, 2}, {2} }

\* the null pointer stored in _gen for a seed
nullptr == <<>>

\* _act(x, pt, tmp)
tree_act(x, pt) == ImageRightAction(pt, x)

\* _grader(pt)
grader(pt) == Cardinality(pt)

\* OrbWithTree(gens, act, copier) / GradedOrb(gens, act, copier, grader)
TreeInit ==
  /\ tKind \in {"tree", "graded"}
  /\ tGens \in SeqsUpTo(TreeGenPool, TreeMaxGens)
  /\ tPts = <<>> /\ tMap = <<>> /\ tEnum = FALSE
  /\ tGen = <<>> /\ tParent = <<>>
  /\ tGrade = UNDEFINED /\ tLow = {}
  /\ tAdds = 0
  /\ tCall = [op |-> "none", arg |-> 0, ret |-> 0, fault |-> FALSE]

\* these orbits while another component is looked at
TreeIdle ==
  /\ tKind = "tree" /\ tGens = <<>>
  /\ tPts = <<>> /\ tMap = <<>> /\ tEnum = FALSE
  /\ tGen = <<>> /\ tParent = <<>>
  /\ tGrade = UNDEFINED /\ tLow = {}
  /\ tAdds = 0
  /\ tCall = [op |-> "none", arg |-> 0, ret |-> 0, fault |-> FALSE]

\* the members the loops of enumerate() work on
TreeState ==
  [pts |-> tPts, map |-> tMap, gen |-> tGen, parent |-> tParent, low |-> tLow]

\* OrbWithTree::process_new_point(x, i): the base class records the point,
\* then the generator and the parent are pushed
tree_process_new_point(st, tmp, x, i) ==
  [st EXCEPT !.map = MapInsert(@, tmp, Len(st.pts)),
             !.pts = Append(@, tmp),
             !.gen = Append(@, x),
             !.parent = Append(@, i)]

\* a process_new_point that takes every point, whatever its grade
graded_process_new_point_any(st, grade, tmp, x, i) ==
  tree_process_new_point(st, tmp, x, i)

\* GradedOrb::process_new_point(x, i)
graded_process_new_point(st, grade, tmp, x, i) ==
  IF grader(tmp) = grade
    THEN tree_process_new_point(st, tmp, x, i)
    ELSE [st EXCEPT !.low = @ \cup {tmp}]

RECURSIVE TreeEnumerateLoop(_, _, _, _, _, _)
\* the loops of Orb::enumerate() with the process_new_point of the class of
\* the orbit
TreeEnumerateLoop(kind, gens, grade, st, i, k) ==
  IF i >= Len(st.pts) THEN st
  ELSE IF k > Len(gens) THEN TreeEnumerateLoop(kind, gens, grade, st, i + 1, 1)
  ELSE LET tmp == tree_act(gens[k], st.pts[i + 1])
       IN TreeEnumerateLoop(kind, gens, grade,
            IF tmp \in DOMAIN st.map THEN st
            ELSE IF kind = "graded"
              THEN graded_process_new_point(st, grade, tmp, gens[k], i)
              ELSE tree_process_new_point(st, tmp, gens[k], i),
            i, k + 1)

\* void enumerate()
tree_enumerate ==
  /\ \E st \in {IF tEnum THEN TreeState
                ELSE TreeEnumerateLoop(tKind, tGens, tGrade, TreeState, 0, 1)} :
       /\ tPts' = st.pts /\ tMap' = st.map
       /\ tGen' = st.gen /\ tParent' = st.parent /\ tLow' = st.low
  /\ tEnum' = TRUE
  /\ tCall' = [op |-> "enumerate", arg |-> 0, ret |-> 0, fault |-> FALSE]
  /\ UNCHANGED <<tKind, tGens, tGrade, tAdds>>

\* size_t OrbWithTree::add_seed(seed): the base class adds the seed when it is
\* new; a null generator and an undefined parent are pushed either way
tree_add_seed(seed) ==
  /\ IF seed \notin DOMAIN tMap
       THEN /\ tMap' = MapInsert(tMap, seed, Len(tPts))
            /\ tPts' = Append(tPts, seed)
            /\ tEnum' = FALSE
            /\ tCall' = [op |-> "add_seed", arg |-> seed, ret |-> Len(tPts),
                         fault |-> FALSE]
       ELSE /\ tCall' = [op |-> "add_seed", arg |-> seed, ret |-> UNDEFINED,
                         fault |-> FALSE]
            /\ UNCHANGED <<tPts, tMap, tEnum>>
  /\ tGen' = Append(tGen, nullptr)
  /\ tParent' = Append(tParent, UNDEFINED)

\* size_t GradedOrb::add_seed(seed)
graded_add_seed(seed) ==
  IF tGrade = UNDEFINED \/ grader(seed) = tGrade
    THEN tree_add_seed(seed) /\ tGrade' = grader(seed)
    ELSE /\ tCall' = [op |-> "add_seed", arg |-> seed, ret |-> UNDEFINED,
                      fault |-> FALSE]
         /\ UNCHANGED <<tPts, tMap, tEnum, tGen, tParent, tGrade>>

RECURSIVE MapperLoop(_, _, _, _)
\* the while loop of mapper(); reading _gen or _parent past their end and
\* multiplying by a null generator are undefined
MapperLoop(gen, parent, pos, out) ==
  IF pos = 0 THEN [fault |-> FALSE, out |-> out]
  ELSE IF pos = UNDEFINED \/ pos >= Len(gen) THEN [fault |-> TRUE, out |-> <<>>]
  ELSE IF gen[pos + 1] = nullptr THEN [fault |-> TRUE, out |-> <<>>]
  ELSE MapperLoop(gen, parent, parent[pos + 1], Product(gen[pos + 1], out))

\* what mapper(pos) computes: a copy of _gen[pos], which is undefined when
\* that is the null pointer, then the loop
Mapped(gen, parent, pos) ==
  IF gen[pos + 1] = nullptr THEN [fault |-> TRUE, out |-> <<>>]
  ELSE MapperLoop(gen, parent, parent[pos + 1], gen[pos + 1])

\* the elements a read through a wild pointer is taken to come up with: the
\* identity and the elements of the pool
WildElements == TreeGenPool \cup {One(3)}

\* where the behaviour is undefined the call can end in a memory fault or
\* return an element that has nothing to do with the tree
MapperOutcomes(r) ==
  IF r.fault
    THEN {r} \cup {[fault |-> FALSE, out |-> t] : t \in WildElements}
    ELSE {r}

\* ElementType* mapper(size_t pos)
mapper(pos) ==
  /\ \E r \in MapperOutcomes(Mapped(tGen, tParent, pos)) :
       tCall' = [op |-> "mapper", arg |-> pos, ret |-> r.out, fault |-> r.fault]
  /\ UNCHANGED <<tKind, tGens, tPts, tMap, tEnum, tGen, tParent, tGrade, tLow,
                 tAdds>>

TreeAddSeed ==
  /\ tAdds < TreeMaxSeeds
  /\ tAdds' = tAdds + 1
  /\ \E seed \in TreeSeedPool :
       IF tKind = "graded"
         THEN graded_add_seed(seed)
         ELSE tree_add_seed(seed) /\ UNCHANGED tGrade
  /\ UNCHANGED <<tKind, tGens, tLow, TreeOthers>>

TreeEnumerate == tree_enumerate /\ UNCHANGED TreeOthers

TreeMapper ==
  /\ \E pos \in 0..(Len(tPts) - 1) : mapper(pos)
  /\ UNCHANGED TreeOthers

TreeNext == TreeAddSeed \/ TreeEnumerate \/ TreeMapper

(***************************************************************************)
(* Claims about the orbits with a tree and with a grade                    *)
(***************************************************************************)
\* C14: for an enumerated orbit with Schreier tree and every index pos of the
\* orbit, mapper(pos) returns an element that carries the seed to the point
\* at that index: act(mapper(pos), seed) = points[pos].
C14_MapperCarriesSeed ==
  (tCall.op = "mapper" /\ tEnum) =>
     /\ ~tCall.fault
     /\ tree_act(tCall.ret, tPts[1]) = tPts[tCall.arg + 1]

\* mapper(0) has been called on an enumerated orbit of several points that
\* has one seed, given once, and the call ended in a memory fault
C14_Witness ==
  /\ tCall.op = "mapper" /\ tEnum /\ tCall.arg = 0 /\ tCall.fault
  /\ tAdds = 1 /\ Len(tPts) >= 2

\* C15: after any sequence of add_seed and enumerate calls on a graded orbit
\* every stored point has the grade of the first accepted seed; a seed of
\* another grade is refused (nothing changes, UNDEFINED is returned) and is
\* not expanded; a generator image of lower grade is in the low-grade side
\* set and never among the points of the orbit.
C15_OneGrade ==
  /\ [](tKind = "graded" =>
          /\ \A i \in 1..Len(tPts) : grader(tPts[i]) = tGrade
          /\ \A p \in tLow : grader(p) < tGrade /\ p \notin Range(tPts)
          /\ tEnum =>
               \A i \in 1..Len(tPts) : \A k \in 1..Len(tGens) :
                  \E q \in {tree_act(tGens[k], tPts[i])} :
                     IF grader(q) = tGrade THEN q \in Range(tPts) ELSE q \in tLow)
  /\ [][ (tKind = "graded" /\ tCall'.op = "add_seed" /\ tGrade # UNDEFINED
            /\ grader(tCall'.arg) # tGrade) =>
           /\ tCall'.ret = UNDEFINED
           /\ UNCHANGED <<tPts, tMap, tEnum, tGen, tParent, tGrade, tLow>>
       ]_vars

\* an enumeration has put lower images aside, and a seed of another grade has
\* just been refused
C15_Witness ==
  /\ tKind = "graded" /\ tEnum /\ tLow # {} /\ Len(tPts) >= 2
  /\ tCall.op = "add_seed" /\ tCall.ret = UNDEFINED
  /\ grader(tCall.arg) # tGrade

\* C27: after any sequence of add_seed calls (also of points already present)
\* and enumerate calls on an orbit with Schreier tree, _gen and _parent have
\* exactly one entry per point, and for every index i that was not given as a
\* seed the parent index p_i is below i and act(g_i, points[p_i]) = points[i].
C27_TreeAligned ==
  tKind = "tree" =>
    /\ Len(tGen) = Len(tPts) /\ Len(tParent) = Len(tPts)
    /\ \A i \in 1..Len(tPts) :
         tGen[i] # nullptr =>
           /\ tParent[i] # UNDEFINED /\ tParent[i] < i - 1
           /\ tree_act(tGen[i], tPts[tParent[i] + 1]) = tPts[i]

\* a seed already in the orbit was given again: the call returned UNDEFINED,
\* added no point, and _gen and _parent are longer than the orbit
C27_Witness ==
  /\ tKind = "tree" /\ tCall.op = "add_seed" /\ tCall.ret = UNDEFINED
  /\ tCall.arg \in Range(tPts)
  /\ Len(tGen) = Len(tPts) + 1 /\ Len(tParent) = Len(tPts) + 1

(***************************************************************************)
(* matrix.hpp : the two row-basis routines of tropical max-plus matrices.  *)
(* A TropicalMaxPlusMat<R, C, T> keeps its R * C entries row after row in  *)
(* one container; a RowView is an iterator to the first entry of a row,    *)
(* here the number of the row.                                             *)
(***************************************************************************)
\* the template parameters R, C and T of the matrices
MatRows == 3

MatCols == 2

MatThreshold == 1

\* NEGATIVE_INFINITY of constants.hpp: the least int64_t, below every entry
NEGATIVE_INFINITY == -2

MatScalars == {NEGATIVE_INFINITY} \cup 0..MatThreshold

\* every container of a matrix with entries in MatScalars
MatInputs == [1..(MatRows * MatCols) -> MatScalars]

MatInit ==
  /\ mMat \in MatInputs
  /\ mCall = [op |-> "none", ret |-> <<>>]

MatIdle ==
  /\ mMat = [i \in 1..(MatRows * MatCols) |-> NEGATIVE_INFINITY]
  /\ mCall = [op |-> "none", ret |-> <<>>]

\* MaxPlusPlus::operator()
MaxPlusPlus(x, y) ==
  IF x = NEGATIVE_INFINITY THEN y
  ELSE IF y = NEGATIVE_INFINITY THEN x
  ELSE IF x < y THEN y ELSE x

\* MaxPlusProd<T>::operator()
MaxPlusProd(x, y) ==
  IF x = NEGATIVE_INFINITY \/ y = NEGATIVE_INFINITY THEN NEGATIVE_INFINITY
  ELSE IF x + y < MatThreshold THEN x + y ELSE MatThreshold

\* MaxPlusZero::operator()
MaxPlusZero == NEGATIVE_INFINITY

\* std::lexicographical_compare, which is also operator< of std::array
RECURSIVE LexLoop(_, _, _)
LexLoop(a, b, i) ==
  IF i > Len(a) \/ i > Len(b) THEN i > Len(a) /\ i <= Len(b)
  ELSE IF a[i] < b[i] THEN TRUE
  ELSE IF b[i] < a[i] THEN FALSE
  ELSE LexLoop(a, b, i + 1)

lexicographical_compare(a, b) == LexLoop(a, b, 1)

\* RowView::operator[] on the view of row v of the matrix with container x
ViewAt(x, v, c) == x[(v - 1) * MatCols + c]

\* the entries begin() .. end() of a view
ViewEntries(x, v) == [c \in 1..MatCols |-> ViewAt(x, v, c)]

\* Matrix::rows(std::array<RowView, R>&): one view per row
rows(x) == [r \in 1..MatRows |-> r]

\* std::sort of the views with the lambda of row_basis
RECURSIVE InsertView(_, _, _)
InsertView(x, sorted, v) ==
  IF sorted = <<>> THEN <<v>>
  ELSE IF lexicographical_compare(ViewEntries(x, v), ViewEntries(x, Head(sorted)))
         THEN <<v>> \o sorted
  ELSE <<Head(sorted)>> \o InsertView(x, Tail(sorted), v)

RECURSIVE SortViews(_, _, _)
SortViews(x, views, i) ==
  IF i > Len(views) THEN <<>>
  ELSE InsertView(x, SortViews(x, views, i + 1), views[i])

\* Matrix(RowView const&) for a Row: the container of a Row has R * C
\* entries (the FIXME of the Row alias), value-initialised, and the C
\* entries of the view are copied to its front
RowOfView(x, v) ==
  [i \in 1..(MatRows * MatCols) |-> IF i <= MatCols THEN ViewAt(x, v, i) ELSE 0]

\* RowView::operator*(a): a Row made of the view, then Matrix::operator*=(a)
\* over its whole container
ViewTimes(x, v, a) ==
  [i \in 1..(MatRows * MatCols) |-> MaxPlusProd(RowOfView(x, v)[i], a)]

\* Matrix::operator+=(Matrix const&) on a Row: R = 1, so the first C entries
RowPlusAssign(tmp, that) ==
  [i \in 1..Len(tmp) |-> IF i <= MatCols THEN MaxPlusPlus(tmp[i], that[i]) ELSE tmp[i]]

\* Matrix::operator!=(RowView const&): std::equal over the C entries of a view
RowDiffersFromView(tmp, x, v) == \E c \in 1..MatCols : tmp[c] # ViewAt(x, v, c)

\* RowView::operator!= of two views
ViewsDiffer(x, v, w) == \E c \in 1..MatCols : ViewAt(x, v, c) # ViewAt(x, w, c)

\* a column loop of row_basis that takes no notice of entries at the threshold
RECURSIVE row_basis_max_scalar_plain(_, _, _, _, _)
row_basis_max_scalar_plain(x, v1, v2, c, max_scalar) ==
  IF c > MatCols THEN max_scalar
  ELSE IF ViewAt(x, v2, c) = MaxPlusZero
    THEN row_basis_max_scalar_plain(x, v1, v2, c + 1, max_scalar)
  ELSE IF ViewAt(x, v1, c) >= ViewAt(x, v2, c)
    THEN row_basis_max_scalar_plain(x, v1, v2, c + 1,
           IF ViewAt(x, v1, c) - ViewAt(x, v2, c) < max_scalar
             THEN ViewAt(x, v1, c) - ViewAt(x, v2, c) ELSE max_scalar)
  ELSE MaxPlusZero

\* the loop over the columns c of row_basis: the greatest scalar max_scalar
\* with views[r2] * max_scalar below views[r1], or Zero when there is none
RECURSIVE row_basis_max_scalar(_, _, _, _, _)
row_basis_max_scalar(x, v1, v2, c, max_scalar) ==
  IF c > MatCols THEN max_scalar
  ELSE IF ViewAt(x, v2, c) = MaxPlusZero
    THEN row_basis_max_scalar(x, v1, v2, c + 1, max_scalar)
  ELSE IF ViewAt(x, v1, c) >= ViewAt(x, v2, c)
    THEN row_basis_max_scalar(x, v1, v2, c + 1,
           IF ViewAt(x, v1, c) # MatThreshold
                /\ ViewAt(x, v1, c) - ViewAt(x, v2, c) < max_scalar
             THEN ViewAt(x, v1, c) - ViewAt(x, v2, c) ELSE max_scalar)
  ELSE MaxPlusZero

\* the loop over r2 < r1 of row_basis, which adds to tmp1
RECURSIVE RowBasisInner(_, _, _, _, _)
RowBasisInner(x, views, r1, r2, tmp1) ==
  IF r2 >= r1 THEN tmp1
  ELSE LET max_scalar == row_basis_max_scalar(x, views[r1], views[r2], 1, MatThreshold)
       IN RowBasisInner(x, views, r1, r2 + 1,
            IF max_scalar # MaxPlusZero
              THEN RowPlusAssign(tmp1, ViewTimes(x, views[r2], max_scalar))
              ELSE tmp1)

\* the loop over r1 of row_basis, which pushes views to result
RECURSIVE RowBasisOuter(_, _, _, _)
RowBasisOuter(x, views, r1, result) ==
  IF r1 > Len(views) THEN result
  ELSE IF r1 = 1 \/ ViewsDiffer(x, views[r1], views[r1 - 1])
    THEN LET tmp1 == RowBasisInner(x, views, r1, 1,
                       [i \in 1..(MatRows * MatCols) |-> MaxPlusZero])
         IN RowBasisOuter(x, views, r1 + 1,
              IF RowDiffersFromView(tmp1, x, views[r1])
                THEN Append(result, views[r1]) ELSE result)
  ELSE RowBasisOuter(x, views, r1 + 1, result)

\* matrix_helpers::row_basis(x): the views it returns
row_basis(x) == RowBasisOuter(x, SortViews(x, rows(x), 1), 1, <<>>)

\* the rows of x as the std::vector<std::array<int64_t, dim>> that
\* tropical_max_plus_row_basis takes
RowArrays(x) == [r \in 1..MatRows |-> ViewEntries(x, r)]

\* std::sort of the vector of arrays
RECURSIVE InsertRow(_, _)
InsertRow(sorted, row) ==
  IF sorted = <<>> THEN <<row>>
  ELSE IF lexicographical_compare(row, Head(sorted)) THEN <<row>> \o sorted
  ELSE <<Head(sorted)>> \o InsertRow(Tail(sorted), row)

RECURSIVE SortRows(_, _)
SortRows(rs, i) ==
  IF i > Len(rs) THEN <<>> ELSE InsertRow(SortRows(rs, i + 1), rs[i])

\* matrix_helpers::scalar_row_product<MaxPlusProd<thresh>>
scalar_row_product(row, scalar) ==
  [i \in 1..Len(row) |-> MaxPlusProd(row[i], scalar)]

\* RowAddition<MaxPlusPlus>::operator()(x, y), in place on x
RowAddition(x, y) == [i \in 1..Len(x) |-> MaxPlusPlus(x[i], y[i])]

\* the loop over col of tropical_max_plus_row_basis
RECURSIVE tropical_max_scalar(_, _, _, _)
tropical_max_scalar(row, row2, col, max_scalar) ==
  IF col > Len(row) THEN max_scalar
  ELSE IF row2[col] = NEGATIVE_INFINITY
    THEN tropical_max_scalar(row, row2, col + 1, max_scalar)
  ELSE IF row[col] >= row2[col]
    THEN tropical_max_scalar(row, row2, col + 1,
           IF row[col] # MatThreshold /\ row[col] - row2[col] < max_scalar
             THEN row[col] - row2[col] ELSE max_scalar)
  ELSE NEGATIVE_INFINITY

\* the loop over row2 < row, which adds to sum
RECURSIVE TropicalInner(_, _, _, _)
TropicalInner(rs, row, row2, sum) ==
  IF row2 >= row THEN sum
  ELSE LET max_scalar == tropical_max_scalar(rs[row], rs[row2], 1, MatThreshold)
       IN TropicalInner(rs, row, row2 + 1,
            IF max_scalar # NEGATIVE_INFINITY
              THEN RowAddition(sum, scalar_row_product(rs[row2], max_scalar))
              ELSE sum)

\* the loop over row, which pushes rows to buf
RECURSIVE TropicalOuter(_, _, _)
TropicalOuter(rs, row, buf) ==
  IF row > Len(rs) THEN buf
  ELSE IF row = 1 \/ rs[row] # rs[row - 1]
    THEN LET sum == TropicalInner(rs, row, 1,
                      [i \in 1..Len(rs[row]) |-> NEGATIVE_INFINITY])
         IN TropicalOuter(rs, row + 1,
              IF sum # rs[row] THEN Append(buf, rs[row]) ELSE buf)
  ELSE TropicalOuter(rs, row + 1, buf)

\* tropical_max_plus_row_basis(rows): what rows holds when it returns
tropical_max_plus_row_basis(rs) == TropicalOuter(SortRows(rs, 1), 1, <<>>)

\* the caller reads the entries of the views row_basis returned
MatRowBasis ==
  /\ \E r \in {row_basis(mMat)} :
       mCall' = [op |-> "row_basis", ret |-> [i \in 1..Len(r) |-> ViewEntries(mMat, r[i])]]
  /\ UNCHANGED <<mMat, MatOthers>>

\* the caller copies the rows of the matrix to a vector and passes it
MatTropicalRowBasis ==
  /\ mCall' = [op |-> "tropical_max_plus_row_basis",
               ret |-> tropical_max_plus_row_basis(RowArrays(mMat))]
  /\ UNCHANGED <<mMat, MatOthers>>

MatNext == MatRowBasis \/ MatTropicalRowBasis

(***************************************************************************)
(* Claims about the row bases                                              *)
(***************************************************************************)
\* the distinct rows of the matrix
RowSet(x) == {ViewEntries(x, r) : r \in 1..MatRows}

\* row is the sum of the rows in rs, each times a scalar of the semiring
IsCombination(row, rs) ==
  \E coef \in [rs -> MatScalars] :
    \A c \in 1..MatCols :
      LET terms == {MaxPlusProd(coef[r], r[c]) : r \in rs} \ {NEGATIVE_INFINITY}
      IN row[c] = IF terms = {} THEN NEGATIVE_INFINITY
                  ELSE CHOOSE t \in terms : \A u \in terms : u <= t

\* the rows that are no combination of the rows below them
IndependentRows(x) ==
  {row \in RowSet(x) :
     ~IsCombination(row, {r \in RowSet(x) : lexicographical_compare(r, row)})}

\* C26: row_basis on the views of a matrix and tropical_max_plus_row_basis
\* on its rows return the same rows in the same order: the distinct rows,
\* in lexicographic order, that are no truncated max-plus combination of
\* the rows below them.
C26_RowBasesAgree ==
  /\ mCall.op = "row_basis" =>
       mCall.ret = tropical_max_plus_row_basis(RowArrays(mMat))
  /\ mCall.op = "tropical_max_plus_row_basis" =>
       \E r \in {row_basis(mMat)} :
         mCall.ret = [i \in 1..Len(r) |-> ViewEntries(mMat, r[i])]
  /\ mCall.op # "none" =>
       /\ Range(mCall.ret) = IndependentRows(mMat)
       /\ \A i \in 1..(Len(mCall.ret) - 1) :
            lexicographical_compare(mCall.ret[i], mCall.ret[i + 1])

\* row_basis has dropped a row at the threshold that is the sum of the two
\* rows below it, and kept those two
C26_Witness ==
  /\ mCall.op = "row_basis" /\ Len(mCall.ret) = 2
  /\ Cardinality(RowSet(mMat)) = 3
  /\ <<MatThreshold, MatThreshold>> \in RowSet(mMat)
  /\ \E r \in Range(mCall.ret) : NEGATIVE_INFINITY \in Range(r)

(***************************************************************************)
(* elements.h : the cached hash value of Transformation objects.  Two      *)
(* objects a and b are constructed from a vector of degree 2 and then      *)
(* changed in place; _hash_value is UNDEFINED until hash_value() is asked. *)
(***************************************************************************)
\* the greatest degree increase_deg_by is asked to reach
ElemMaxDeg == 3

ElemObjects == {"a", "b"}

\* the vectors the objects are constructed from
ElemVectors == {<<0, 0>>, <<0, 1>>, <<1, 0>>, <<1, 1>>}

\* Transformation(std::vector<T> const&): Element() sets _hash_value UNDEFINED
ElemInit ==
  /\ eVector \in [ElemObjects -> ElemVectors]
  /\ eHashValue = [o \in ElemObjects |-> UNDEFINED]
  /\ eCall = [op |-> "none", obj |-> "a", ret |-> UNDEFINED]

ElemIdle ==
  /\ eVector = [o \in ElemObjects |-> <<0, 1>>]
  /\ eHashValue = [o \in ElemObjects |-> UNDEFINED]
  /\ eCall = [op |-> "none", obj |-> "a", ret |-> UNDEFINED]

\* the loop of Transformation::cache_hash_value: seed *= deg; seed += val
\* (the values stay far below the width of size_t)
RECURSIVE HashLoop(_, _, _)
HashLoop(vector, i, seed) ==
  IF i > Len(vector) THEN seed
  ELSE HashLoop(vector, i + 1, seed * Len(vector) + vector[i])

\* Transformation::cache_hash_value(): the value stored in _hash_value
cache_hash_value(vector) == HashLoop(vector, 1, 0)

\* Element::reset_hash_value()
reset_hash_value(this) == eHashValue' = [eHashValue EXCEPT ![this] = UNDEFINED]

\* Element::hash_value() const: computed only when nothing is cached
hash_value(this) ==
  /\ eHashValue' = [eHashValue EXCEPT ![this] =
                      IF @ = UNDEFINED THEN cache_hash_value(eVector[this]) ELSE @]
  /\ eCall' = [op |-> "hash_value", obj |-> this, ret |-> eHashValue'[this]]
  /\ UNCHANGED eVector

\* ElementWithVectorData::copy(x): the vector and the cached hash of x
copy(this, x) ==
  /\ eVector' = [eVector EXCEPT ![this] = eVector[x]]
  /\ eHashValue' = [eHashValue EXCEPT ![this] = eHashValue[x]]
  /\ eCall' = [op |-> "copy", obj |-> this, ret |-> UNDEFINED]

\* ElementWithVectorData::swap(x): the vectors and the cached hashes change
\* places
swap(this, x) ==
  /\ eVector' = [eVector EXCEPT ![this] = eVector[x], ![x] = eVector[this]]
  /\ eHashValue' = [eHashValue EXCEPT ![this] = eHashValue[x], ![x] = eHashValue[this]]
  /\ eCall' = [op |-> "swap", obj |-> this, ret |-> UNDEFINED]

\* Transformation::increase_deg_by(m): resize, then std::iota over the new
\* entries, then reset_hash_value()
increase_deg_by(this, m) ==
  /\ eVector' = [eVector EXCEPT ![this] =
                   @ \o [i \in 1..m |-> Len(@) + i - 1]]
  /\ reset_hash_value(this)
  /\ eCall' = [op |-> "increase_deg_by", obj |-> this, ret |-> UNDEFINED]

\* a redefine that leaves the cached hash as it is
redefine_keep_hash(this, x, y) ==
  /\ eVector' = [eVector EXCEPT ![this] =
                   [i \in 1..Len(@) |-> eVector[y][eVector[x][i] + 1]]]
  /\ UNCHANGED eHashValue
  /\ eCall' = [op |-> "redefine", obj |-> this, ret |-> UNDEFINED]

\* Transformation::redefine(x, y): this[i] = y[x[i]], then reset_hash_value()
redefine(this, x, y) ==
  /\ eVector' = [eVector EXCEPT ![this] =
                   [i \in 1..Len(@) |-> eVector[y][eVector[x][i] + 1]]]
  /\ reset_hash_value(this)
  /\ eCall' = [op |-> "redefine", obj |-> this, ret |-> UNDEFINED]

\* the assertions of redefine: equal degrees, and neither x nor y is this
ElemRedefine ==
  /\ \E this \in ElemObjects : \E x, y \in ElemObjects \ {this} :
       /\ Len(eVector[x]) = Len(eVector[y])
       /\ Len(eVector[x]) = Len(eVector[this])
       /\ redefine(this, x, y)
  /\ UNCHANGED ElemOthers

\* the assertion of copy: equal degrees; the argument is another object
ElemCopy ==
  /\ \E this \in ElemObjects : \E x \in ElemObjects \ {this} :
       /\ Len(eVector[x]) = Len(eVector[this])
       /\ copy(this, x)
  /\ UNCHANGED ElemOthers

\* the assertion of swap: equal degrees
ElemSwap ==
  /\ \E this \in ElemObjects : \E x \in ElemObjects \ {this} :
       /\ Len(eVector[x]) = Len(eVector[this])
       /\ swap(this, x)
  /\ UNCHANGED ElemOthers

ElemIncreaseDeg ==
  /\ \E this \in ElemObjects : \E m \in 0..(ElemMaxDeg - Len(eVector[this])) :
       increase_deg_by(this, m)
  /\ UNCHANGED ElemOthers

ElemHashValue ==
  /\ \E this \in ElemObjects : hash_value(this)
  /\ UNCHANGED ElemOthers

ElemNext ==
  ElemRedefine \/ ElemCopy \/ ElemSwap \/ ElemIncreaseDeg \/ ElemHashValue

(***************************************************************************)
(* Claims about the elements                                               *)
(***************************************************************************)
\* C28: after any sequence of redefine, copy, swap, increase_deg_by and
\* hash_value calls, hash_value() returns the hash computed from the current
\* vector of the element and no stale value is cached, so two elements that
\* compare equal return equal hash values.
C28_HashFresh ==
  /\ \A o \in ElemObjects :
       eHashValue[o] \in {UNDEFINED, cache_hash_value(eVector[o])}
  /\ eCall.op = "hash_value" => eCall.ret = cache_hash_value(eVector[eCall.obj])
  /\ \A o, q \in ElemObjects :
       (eVector[o] = eVector[q] /\ eHashValue[o] # UNDEFINED
          /\ eHashValue[q] # UNDEFINED) => eHashValue[o] = eHashValue[q]

\* hash_value() was asked of an element of degree 3 that differs from the
\* identity while the other element, of degree 2, has its hash cached
C28_Witness ==
  /\ eCall.op = "hash_value" /\ Len(eVector[eCall.obj]) = 3
  /\ eVector[eCall.obj] # <<0, 1, 2>> /\ eCall.ret = eHashValue[eCall.obj]
  /\ \E q \in ElemObjects : Len(eVector[q]) = 2 /\ eHashValue[q] # UNDEFINED

(***************************************************************************)
(* The specifications: one component runs, the others stay idle            *)
(***************************************************************************)
InitGraph == GraphInit /\ CacheIdle /\ GuardIdle /\ OrbIdle /\ TreeIdle /\ KonIdle
  /\ MatIdle /\ ElemIdle

SpecGraph == InitGraph /\ [][GraphNext]_vars

InitCache == CacheInit /\ GuardIdle /\ OrbIdle /\ TreeIdle /\ GraphIdle /\ KonIdle
  /\ MatIdle /\ ElemIdle

SpecCache == InitCache /\ [][CacheNext]_vars

InitGuard == CacheInit /\ GuardIdle /\ OrbIdle /\ TreeIdle /\ GraphIdle /\ KonIdle
  /\ MatIdle /\ ElemIdle

SpecGuard == InitGuard /\ [][GuardNext]_vars

InitTree == TreeInit /\ CacheIdle /\ GuardIdle /\ OrbIdle /\ GraphIdle /\ KonIdle
  /\ MatIdle /\ ElemIdle

SpecTree == InitTree /\ [][TreeNext]_vars

InitOrb == OrbInit /\ CacheIdle /\ GuardIdle /\ TreeIdle /\ GraphIdle /\ KonIdle
  /\ MatIdle /\ ElemIdle

SpecOrb == InitOrb /\ [][OrbNext]_vars

InitKon == KonInit /\ CacheIdle /\ GuardIdle /\ OrbIdle /\ TreeIdle /\ GraphIdle
  /\ MatIdle /\ ElemIdle

SpecKon == InitKon /\ [][KonNext]_vars

\* what enables a pass of the inner loop: the guards of NewDClass, which
\* always adds a class when they hold
NewDClassEnabled == kPc = "inner" /\ kNextReps # <<>>

\* the constructor is sequential code: once it is called every step of its
\* loop that can be taken is taken.  The last conjunct is
\* WF_vars(KonNewDClass) with its enabling condition written out.
SpecKonFair ==
  /\ InitKon /\ [][KonNext]_vars
  /\ WF_vars(KonSelectBatch) /\ WF_vars(KonEndBatch) /\ WF_vars(KonConstructed)
  /\ ([]<>(~NewDClassEnabled) \/ []<><<KonNewDClass>>_vars)

InitMat == MatInit /\ CacheIdle /\ GuardIdle /\ OrbIdle /\ TreeIdle /\ GraphIdle
  /\ KonIdle /\ ElemIdle

SpecMat == InitMat /\ [][MatNext]_vars

InitElem == ElemInit /\ CacheIdle /\ GuardIdle /\ OrbIdle /\ TreeIdle /\ GraphIdle
  /\ KonIdle /\ MatIdle

SpecElem == InitElem /\ [][ElemNext]_vars

====
